---- MODULE Spec2Model ----
(***************************************************************************)
(* Model of the users module of go_template: the User entity, the MongoDB  *)
(* user repository, the Redis cache gateway and the cache-aside            *)
(* UserService built on both, with the HTTP status mapping of the handlers.*)
(*                                                                         *)
(* Spec      sequential histories: every service operation is one action.  *)
(* SpecLists sequential histories with the list operation.                 *)
(* SpecConc  two callers whose CreateUser / UpdateUser / DeleteUser calls  *)
(*           interleave at the granularity of one cache or store call.     *)
(* SpecFail  sequential histories with outages of the cache and of the     *)
(*           database.                                                     *)
(* SpecSweep creations and soft deletions while days pass, with the        *)
(*           maintenance sweep and hard deletions.                         *)
(* SpecTTL   creations, soft deletions, list and stats reads while minutes *)
(*           pass and cache entries expire.                                *)
(* SpecEntity one User in memory: roles, logins, failed logins, minutes.   *)
(* SpecPasswords the three password validators applied to one password.    *)
(***************************************************************************)
EXTENDS Integers, Sequences, FiniteSets, TLC

VARIABLES store, cache, nextId, now, procs, repoDown

vars == <<store, cache, nextId, now, procs, repoDown>>

\* ---------------------------------------------------------------- bounds

\* How many users may be inserted in one behaviour.
MaxUsers == 2
\* How many calls the concurrent callers begin in one behaviour.
MaxCalls == 3

\* ------------------------------------------------------- program constants

\* service.go: cache expiration times, in minutes.
UserCacheExpiration == 15
UserListCacheExpiration == 5
UserStatsCacheExpiration == 30
UserExistsCacheExpiration == 10

\* dto.go SetDefaults / repository GetAll: list defaults.
DefaultPage == 1
DefaultLimit == 20
MaxLimit == 100

\* user.go: validation limits.
MinUsernameLen == 3
MaxUsernameLen == 30
MinPasswordLen == 8
MaxPasswordLen == 128

\* ------------------------------------------------------------ input values

\* Request values as clients send them; "x" is too short to be a username.
Usernames == {"ann", "Bob"}
BadUsernames == {"x"}
Emails == {"a@x.io", "b@x.io"}
Passwords == {"Passw0rdA", "Passw0rdB"}
\* Outcome of crypto/rand in generateSalt.
Salts == {"s1"}

\* strings.ToLower on the values above.
ToLower(s) ==
    CASE s = "Bob" -> "bob"
      [] s = "B@x.io" -> "b@x.io"
      [] OTHER -> s

\* strings.TrimSpace on the values above (none of them is padded, the padded
\* forms are listed for the conversions that meet them).
TrimSpace(s) ==
    CASE s = " ann" -> "ann"
      [] s = "ann " -> "ann"
      [] s = " a@x.io" -> "a@x.io"
      [] OTHER -> s

\* primitive.ObjectID.Hex of the n-th generated ObjectID.
ObjectID(n) == "oid" \o ToString(n)

\* primitive.ObjectIDFromHex succeeds on the hex form of an ObjectID only.
IsValidObjectID(id) == \E n \in 1..(MaxUsers + 1) : id = ObjectID(n)

IdInputs == {ObjectID(n) : n \in 1..MaxUsers} \cup {"zzz"}

\* ------------------------------------------------------------------ errors
\* An error is the chain of its message segments, outermost first
\* (fmt.Errorf("...: %w", err) prepends one); <<>> is nil.

NoError == <<>>

Wrap(msg, err) == <<msg>> \o err

\* strings.Contains(err.Error(), text) for the texts the handlers look for.
ErrContains(err, text) ==
    \E i \in 1..Len(err) :
        CASE text = "already exists" ->
                err[i] \in {"username already exists", "email already exists",
                            "username '%s' already exists", "email '%s' already exists"}
          [] text = "not found" -> err[i] \in {"user not found"}
          [] text = "validation failed" -> err[i] \in {"validation failed"}
          [] text = "incorrect" -> err[i] \in {"current password is incorrect"}
          [] text = "already verified" -> err[i] \in {"user is already verified"}
          [] OTHER -> FALSE

\* ------------------------------------------------------------ entity model

\* A *time.Time field is the empty set (nil) or a singleton.
NoTime == {}
At(t) == {t}

\* hashPassword: SHA-256 of password + salt, taken as injective on the pair.
hashPassword(password, salt) == <<password, salt>>

\* The zero value of the Password string field.
NoHash == <<>>

\* &models.User{}: the zero value of the struct.
ZeroUser ==
    [id |-> "", username |-> "", email |-> "", first_name |-> "",
     password |-> NoHash, salt |-> "",
     is_active |-> FALSE, is_verified |-> FALSE, email_verified_at |-> NoTime,
     roles |-> <<>>, login_count |-> 0,
     last_login_at |-> NoTime, failed_logins |-> 0, last_failed_at |-> NoTime,
     created_at |-> 0, updated_at |-> 0, deleted_at |-> NoTime]

ValidateUsername(username) ==
    LET u == TrimSpace(username) IN
    IF Len(u) < MinUsernameLen THEN <<"username must be at least 3 characters long">>
    ELSE IF Len(u) > MaxUsernameLen THEN <<"username cannot exceed 30 characters">>
    ELSE NoError

\* Every email of the input domain matches the address shape.
ValidateEmail(email) ==
    LET e == TrimSpace(email) IN
    IF e = "" THEN <<"email is required">>
    ELSE IF e \notin {TrimSpace(x) : x \in Emails} THEN <<"invalid email format">>
    ELSE NoError

\* The character classes a password of the input domain holds letters of:
\* the offered passwords hold an upper-case letter, a lower-case letter and a
\* digit, every other one lower-case letters only.
CharClasses(password) ==
    IF password \in Passwords THEN {"upper", "lower", "digit"} ELSE {"lower"}

\* models.ValidatePassword on a password of len bytes with letters of the
\* given classes ([A-Z] "upper", [a-z] "lower", \d "digit").
ValidatePasswordOf(len, classes) ==
    IF len < MinPasswordLen
    THEN <<"password must be at least 8 characters long">>
    ELSE IF len > MaxPasswordLen
    THEN <<"password cannot exceed 128 characters">>
    ELSE IF ~({"upper", "lower", "digit"} \subseteq classes)
    THEN <<"password must contain at least one uppercase letter, one lowercase letter, and one digit">>
    ELSE NoError

ValidatePassword(password) == ValidatePasswordOf(Len(password), CharClasses(password))

\* utils.PasswordService.ValidatePassword, which HashPassword calls first.
PasswordServiceValidatePassword(len, classes) ==
    IF len < 8
    THEN <<"password must be at least 8 characters long">>
    ELSE IF len > 128
    THEN <<"password cannot exceed 128 characters">>
    ELSE IF "upper" \notin classes \/ "lower" \notin classes \/ "digit" \notin classes
    THEN <<"password must contain at least one uppercase letter, one lowercase letter, and one digit">>
    ELSE NoError

\* response.IsValidPassword: at least 3 of the 4 character types.
IsValidPassword(len, classes) ==
    IF len < 8 \/ len > 128 THEN FALSE
    ELSE Cardinality(classes \cap {"upper", "lower", "digit", "symbol"}) >= 3

RoleUser == "user"
RoleAdmin == "admin"

\* User.HasRole.
HasRole(u, role) == \E i \in 1..Len(u.roles) : u.roles[i] = role

\* User.AddRole at time t.
AddRole(u, role, t) ==
    IF HasRole(u, role) THEN u
    ELSE [u EXCEPT !.roles = Append(@, role), !.updated_at = t]

\* User.RemoveRole at time t: the first occurrence of the role is cut out.
RemoveRole(u, role, t) ==
    IF ~HasRole(u, role) THEN u
    ELSE LET i == CHOOSE k \in 1..Len(u.roles) :
                      /\ u.roles[k] = role
                      /\ \A j \in 1..(k - 1) : u.roles[j] # role
         IN [u EXCEPT !.roles = SubSeq(@, 1, i - 1) \o SubSeq(@, i + 1, Len(@)),
                      !.updated_at = t]

\* A RecordLogin that leaves the count of failed logins as it is.
RecordLogin_KeepsFailures(u, t) ==
    [u EXCEPT !.last_login_at = At(t), !.login_count = @ + 1, !.updated_at = t]

\* User.RecordLogin at time t.
RecordLogin(u, t) ==
    [u EXCEPT !.last_login_at = At(t), !.login_count = @ + 1,
              !.failed_logins = 0, !.updated_at = t]

\* User.RecordFailedLogin at time t.
RecordFailedLogin(u, t) ==
    [u EXCEPT !.failed_logins = @ + 1, !.last_failed_at = At(t), !.updated_at = t]

\* The constants of User.IsLocked; the duration is in minutes.
maxFailedLogins == 5
lockoutDuration == 30

\* User.IsLocked at time t.
IsLocked(u, t) ==
    IF u.failed_logins < maxFailedLogins THEN FALSE
    ELSE IF u.last_failed_at = NoTime THEN FALSE
    ELSE \A at \in u.last_failed_at : t - at < lockoutDuration

\* NewUser, given the ObjectID, the salt and the time it draws.
NewUser(username, email, password, oid, salt, t) ==
    IF ValidateUsername(username) # NoError
    THEN [err |-> ValidateUsername(username), user |-> ZeroUser]
    ELSE IF ValidateEmail(email) # NoError
    THEN [err |-> ValidateEmail(email), user |-> ZeroUser]
    ELSE IF ValidatePassword(password) # NoError
    THEN [err |-> ValidatePassword(password), user |-> ZeroUser]
    ELSE [err |-> NoError,
          user |-> [ZeroUser EXCEPT
                      !.id = oid,
                      !.created_at = t,
                      !.updated_at = t,
                      !.username = ToLower(TrimSpace(username)),
                      !.email = ToLower(TrimSpace(email)),
                      !.password = hashPassword(password, salt),
                      !.salt = salt,
                      !.is_active = TRUE,
                      !.is_verified = FALSE,
                      !.roles = <<RoleUser>>]]

CheckPassword(u, password) == u.password = hashPassword(password, u.salt)

\* A SetPassword that hashes with the new salt and keeps the old one.
SetPassword_KeepsSalt(u, newPassword, salt, t) ==
    IF ValidatePassword(newPassword) # NoError
    THEN [err |-> ValidatePassword(newPassword), user |-> u]
    ELSE [err |-> NoError,
          user |-> [u EXCEPT !.password = hashPassword(newPassword, salt),
                             !.updated_at = t]]

\* User.SetPassword, given the salt and the time it draws.
SetPassword(u, newPassword, salt, t) ==
    IF ValidatePassword(newPassword) # NoError
    THEN [err |-> ValidatePassword(newPassword), user |-> u]
    ELSE [err |-> NoError,
          user |-> [u EXCEPT !.salt = salt,
                             !.password = hashPassword(newPassword, salt),
                             !.updated_at = t]]

\* encoding/json of a User: Password, Salt, FailedLogins and LastFailedAt
\* carry json:"-" and are left out.
MarshalUser(u) ==
    [id |-> u.id, username |-> u.username, email |-> u.email,
     first_name |-> u.first_name,
     is_active |-> u.is_active, is_verified |-> u.is_verified,
     email_verified_at |-> u.email_verified_at,
     roles |-> u.roles, login_count |-> u.login_count,
     last_login_at |-> u.last_login_at,
     created_at |-> u.created_at, updated_at |-> u.updated_at,
     deleted_at |-> u.deleted_at]

\* json.Unmarshal into a fresh User: fields absent from the document keep
\* their zero value.
UnmarshalUser(j) ==
    [ZeroUser EXCEPT
        !.id = j.id, !.username = j.username, !.email = j.email,
        !.first_name = j.first_name,
        !.is_active = j.is_active, !.is_verified = j.is_verified,
        !.email_verified_at = j.email_verified_at,
        !.roles = j.roles, !.login_count = j.login_count,
        !.last_login_at = j.last_login_at,
        !.created_at = j.created_at, !.updated_at = j.updated_at,
        !.deleted_at = j.deleted_at]

\* -------------------------------------------------------------- repository
\* The collection is the set of its documents; _id is its primary key.
\* While repoDown holds, every call of the driver returns an error.

\* The error the driver returns while the database cannot be reached.
DriverError == <<"server selection error">>

\* The error of ExistsByUsername / ExistsByEmail, if any.
RepoExistsError(field) ==
    IF ~repoDown THEN NoError
    ELSE IF field = "email" THEN <<"failed to check email existence">> \o DriverError
    ELSE <<"failed to check username existence">> \o DriverError

\* A filter that does not look at deleted_at.
Live_WithTombstones(st) == st

Live(st) == {u \in st : u.deleted_at = NoTime}

\* The unique indexes idx_users_username and idx_users_email of
\* EnsureIndexes: plain unique indexes over every document of the
\* collection, tombstoned or not.
DuplicateKey(st, doc) ==
    \E d \in st : d.id # doc.id /\ (d.username = doc.username \/ d.email = doc.email)

ExistsByUsername(st, username) == \E u \in Live(st) : u.username = username

ExistsByEmail(st, email) == \E u \in Live(st) : u.email = email

\* collection.InsertOne under the unique indexes.
\* An insert into a collection whose unique indexes are missing.
InsertOne_NoUniqueIndex(st, doc) == [err |-> NoError, store |-> st \cup {doc}]

InsertOne(st, doc) ==
    IF DuplicateKey(st, doc)
    THEN [err |-> <<"E11000 duplicate key error">>, store |-> st]
    ELSE [err |-> NoError, store |-> st \cup {doc}]

\* UserRepository.Create: the two pre-checks, then the insert.
RepoCreate(st, user) ==
    IF repoDown
    THEN [err |-> RepoExistsError("username"), store |-> st]
    ELSE IF ExistsByUsername(st, user.username)
    THEN [err |-> <<"username already exists">>, store |-> st]
    ELSE IF ExistsByEmail(st, user.email)
    THEN [err |-> <<"email already exists">>, store |-> st]
    ELSE LET r == InsertOne(st, user) IN
         IF r.err # NoError
         THEN [err |-> Wrap("failed to create user", r.err), store |-> st]
         ELSE r

\* FindOne with a filter on one field and on the absence of deleted_at.
FindLive(st, field, value) ==
    LET m == {u \in Live(st) : u[field] = value} IN
    IF m = {} THEN [err |-> <<"user not found">>, user |-> ZeroUser]
    ELSE [err |-> NoError, user |-> CHOOSE u \in m : TRUE]

RepoGetByID(st, id) ==
    IF ~IsValidObjectID(id)
    THEN [err |-> <<"invalid user ID format">>, user |-> ZeroUser]
    ELSE IF repoDown
    THEN [err |-> <<"failed to get user by ID">> \o DriverError, user |-> ZeroUser]
    ELSE FindLive(st, "id", id)

RepoGetByUsername(st, username) ==
    IF repoDown
    THEN [err |-> <<"failed to get user by username">> \o DriverError, user |-> ZeroUser]
    ELSE FindLive(st, "username", username)

RepoGetByEmail(st, email) ==
    IF repoDown
    THEN [err |-> <<"failed to get user by email">> \o DriverError, user |-> ZeroUser]
    ELSE FindLive(st, "email", email)

\* $set of an update map on a document.
ApplySet(doc, updates) ==
    [f \in DOMAIN doc |-> IF f \in DOMAIN updates THEN updates[f] ELSE doc[f]]

\* An Update that leaves updated_at to the caller.
RepoUpdate_NoStamp(st, id, updates, t) ==
    IF ~IsValidObjectID(id)
    THEN [err |-> <<"invalid user ID format">>, store |-> st]
    ELSE IF repoDown
    THEN [err |-> <<"failed to update user">> \o DriverError, store |-> st]
    ELSE LET m == {u \in Live(st) : u.id = id} IN
         IF m = {}
         THEN [err |-> <<"user not found">>, store |-> st]
         ELSE LET old == CHOOSE u \in m : TRUE
                  new == ApplySet(old, updates)
              IN IF DuplicateKey(st, new)
                 THEN [err |-> <<"failed to update user", "E11000 duplicate key error">>,
                       store |-> st]
                 ELSE [err |-> NoError, store |-> (st \ {old}) \cup {new}]

\* UserRepository.Update at time t: stamps updated_at, matches the
\* non-tombstoned document of that id, and writes under the unique indexes.
RepoUpdate(st, id, updates, t) ==
    IF ~IsValidObjectID(id)
    THEN [err |-> <<"invalid user ID format">>, store |-> st]
    ELSE IF repoDown
    THEN [err |-> <<"failed to update user">> \o DriverError, store |-> st]
    ELSE LET m == {u \in Live(st) : u.id = id} IN
         IF m = {}
         THEN [err |-> <<"user not found">>, store |-> st]
         ELSE LET old == CHOOSE u \in m : TRUE
                  new == ApplySet(old, ("updated_at" :> t) @@ updates)
              IN IF DuplicateKey(st, new)
                 THEN [err |-> <<"failed to update user", "E11000 duplicate key error">>,
                       store |-> st]
                 ELSE [err |-> NoError, store |-> (st \ {old}) \cup {new}]

RepoSoftDelete(st, id, t) ==
    RepoUpdate(st, id, ("deleted_at" :> At(t)) @@ ("is_active" :> FALSE), t)

RepoMarkAsVerified(st, id, t) ==
    RepoUpdate(st, id, ("is_verified" :> TRUE) @@ ("email_verified_at" :> At(t)), t)

RepoUpdateStatus(st, id, isActive, t) ==
    RepoUpdate(st, id, "is_active" :> isActive, t)

RepoUpdateLastLogin(st, id, t) ==
    RepoUpdate(st, id, "last_login_at" :> At(t), t)

RepoResetFailedLogins(st, id, t) ==
    RepoUpdate(st, id, ("failed_logins" :> 0) @@ ("last_failed_at" :> NoTime), t)

\* UserRepository.IncrementLoginCount: $inc of login_count and $set of
\* updated_at on the non-tombstoned document of that id.
RepoIncrementLoginCount(st, id, t) ==
    IF ~IsValidObjectID(id)
    THEN [err |-> <<"invalid user ID format">>, store |-> st]
    ELSE IF repoDown
    THEN [err |-> <<"failed to increment login count">> \o DriverError, store |-> st]
    ELSE LET m == {u \in Live(st) : u.id = id} IN
         IF m = {}
         THEN [err |-> <<"user not found">>, store |-> st]
         ELSE LET old == CHOOSE u \in m : TRUE
                  new == [old EXCEPT !.login_count = @ + 1, !.updated_at = t]
              IN [err |-> NoError, store |-> (st \ {old}) \cup {new}]

\* UserRepository.RecordFailedLogin: $inc of failed_logins and $set of
\* last_failed_at and updated_at.
RepoRecordFailedLogin(st, id, t) ==
    IF ~IsValidObjectID(id)
    THEN [err |-> <<"invalid user ID format">>, store |-> st]
    ELSE IF repoDown
    THEN [err |-> <<"failed to record failed login">> \o DriverError, store |-> st]
    ELSE LET m == {u \in Live(st) : u.id = id} IN
         IF m = {}
         THEN [err |-> <<"user not found">>, store |-> st]
         ELSE LET old == CHOOSE u \in m : TRUE
                  new == [old EXCEPT !.failed_logins = @ + 1,
                                     !.last_failed_at = At(t), !.updated_at = t]
              IN [err |-> NoError, store |-> (st \ {old}) \cup {new}]

\* UsersQueryParams.SetDefaults.
SetDefaults(q) ==
    [q EXCEPT
        !.page = IF q.page < 1 THEN DefaultPage ELSE q.page,
        !.limit = IF q.limit < 1 \/ q.limit > MaxLimit THEN DefaultLimit ELSE q.limit,
        !.sort_by = IF q.sort_by = "" THEN "created_at" ELSE q.sort_by,
        !.sort_dir = IF q.sort_dir = "" THEN "desc" ELSE q.sort_dir]

\* The $regex/i match of a search term against one field; no value of the
\* input domain is a proper substring of another, so the match is equality
\* up to letter case.
RegexMatch(value, search) == ToLower(value) = ToLower(search)

\* The filter GetAll builds from the query.
MatchesQuery(u, q) ==
    /\ u.deleted_at = NoTime
    /\ q.search # "" =>
          \/ RegexMatch(u.username, q.search)
          \/ RegexMatch(u.email, q.search)
          \/ RegexMatch(u.first_name, q.search)
    /\ q.role # "" => \E i \in 1..Len(u.roles) : u.roles[i] = q.role
    /\ q.is_active # {} => u.is_active \in q.is_active

\* The position in which the n-th ObjectID was generated.
OidNum(id) == CHOOSE n \in 1..(MaxUsers + 1) : ObjectID(n) = id

\* Whether a comes before b in a sort on created_at in the given direction;
\* documents with equal keys come in insertion order.
SortsBefore(a, b, dir) ==
    IF a.created_at # b.created_at
    THEN IF dir = "desc" THEN a.created_at > b.created_at ELSE a.created_at < b.created_at
    ELSE OidNum(a.id) < OidNum(b.id)

RECURSIVE Sorted(_, _)
Sorted(S, dir) ==
    IF S = {} THEN <<>>
    ELSE LET first == CHOOSE a \in S : \A b \in S \ {a} : SortsBefore(a, b, dir)
         IN <<first>> \o Sorted(S \ {first}, dir)

\* A Find that applies the limit and no skip.
Page_NoSkip(seq, skip, limit) ==
    LET hi == IF limit < Len(seq) THEN limit ELSE Len(seq)
    IN IF 1 > hi THEN <<>> ELSE SubSeq(seq, 1, hi)

\* Find with SetSkip and SetLimit on a sorted result.
Page(seq, skip, limit) ==
    LET lo == skip + 1
        hi == IF skip + limit < Len(seq) THEN skip + limit ELSE Len(seq)
    IN IF lo > hi THEN <<>> ELSE SubSeq(seq, lo, hi)

\* UserRepository.GetAll.
RepoGetAll(st, params) ==
    LET q == SetDefaults(params)
        match == {u \in st : MatchesQuery(u, q)}
    IN IF repoDown
       THEN [err |-> <<"failed to count users">> \o DriverError, users |-> <<>>, total |-> 0]
       ELSE [err |-> NoError,
             users |-> Page(Sorted(match, q.sort_dir), (q.page - 1) * q.limit, q.limit),
             total |-> Cardinality(match)]

\* The error of UserRepository.GetUserStats, if any.
RepoGetUserStatsError ==
    IF repoDown THEN <<"failed to get user stats">> \o DriverError ELSE NoError

RECURSIVE SumLogins(_)
SumLogins(S) ==
    IF S = {} THEN 0
    ELSE LET u == CHOOSE x \in S : TRUE IN u.login_count + SumLogins(S \ {u})

\* The document a $group stage with no input produces nothing: nil.
NoStats == [total_users |-> 0, active_users |-> 0, verified_users |-> 0,
            avg_login_count |-> 0, empty |-> TRUE]

\* UserRepository.GetUserStats: one aggregation over the non-tombstoned
\* documents (the average is kept as its integral part).
RepoGetUserStats(st) ==
    LET L == Live(st) IN
    IF L = {} THEN NoStats
    ELSE [total_users |-> Cardinality(L),
          active_users |-> Cardinality({u \in L : u.is_active}),
          verified_users |-> Cardinality({u \in L : u.is_verified}),
          avg_login_count |-> SumLogins(L) \div Cardinality(L),
          empty |-> FALSE]

\* UserRepository.Search: the live documents one of whose fields matches,
\* at most limit of them, in the order of insertion.
RepoSearch(st, query, limit) ==
    LET match == {u \in Live(st) : \/ RegexMatch(u.username, query)
                                   \/ RegexMatch(u.email, query)
                                   \/ RegexMatch(u.first_name, query)}
    IN IF repoDown
       THEN [err |-> <<"failed to search users">> \o DriverError, users |-> <<>>]
       ELSE [err |-> NoError, users |-> Page(Sorted(match, "asc"), 0, limit)]

RepoExistsByID(st, id) ==
    IF ~IsValidObjectID(id)
    THEN [err |-> <<"invalid user ID format">>, exists |-> FALSE]
    ELSE IF repoDown
    THEN [err |-> <<"failed to check user existence">> \o DriverError, exists |-> FALSE]
    ELSE [err |-> NoError, exists |-> \E u \in Live(st) : u.id = id]

\* UserRepository.GetByRole: at most limit live documents, in the order of
\* insertion.
RepoGetByRole(st, role, limit) ==
    LET match == {u \in Live(st) : \E i \in 1..Len(u.roles) : u.roles[i] = role}
    IN IF repoDown
       THEN [err |-> <<"failed to get users by role">> \o DriverError, users |-> <<>>]
       ELSE [err |-> NoError, users |-> Page(Sorted(match, "asc"), 0, limit)]

RepoCountByRole(st, role) ==
    IF repoDown
    THEN [err |-> <<"failed to count users by role">> \o DriverError, count |-> 0]
    ELSE [err |-> NoError,
          count |-> Cardinality({u \in Live(st) :
                                    \E i \in 1..Len(u.roles) : u.roles[i] = role})]

\* UserRepository.Delete: DeleteOne with a filter on _id alone.
RepoDelete(st, id) ==
    IF ~IsValidObjectID(id)
    THEN [err |-> <<"invalid user ID format">>, store |-> st]
    ELSE IF repoDown
    THEN [err |-> <<"failed to delete user">> \o DriverError, store |-> st]
    ELSE IF {u \in st : u.id = id} = {}
    THEN [err |-> <<"user not found">>, store |-> st]
    ELSE [err |-> NoError, store |-> {u \in st : u.id # id}]

\* UserRepository.DeleteMany: DeleteMany with a filter on _id alone.
RepoDeleteMany(st, ids) ==
    IF ids = {} THEN [err |-> NoError, store |-> st]
    ELSE IF \E id \in ids : ~IsValidObjectID(id)
    THEN [err |-> <<"invalid user ID format at index %d">>, store |-> st]
    ELSE IF repoDown
    THEN [err |-> <<"failed to delete multiple users">> \o DriverError, store |-> st]
    ELSE [err |-> NoError, store |-> {u \in st : u.id \notin ids}]

\* The retention window of Cleanup, in days; the clock counts days.
RetentionDays == 30

\* A Cleanup that also removes what was tombstoned exactly 30 days before.
RepoCleanup_AtThirtyDays(st, t) ==
    IF repoDown
    THEN [err |-> <<"failed to cleanup users">> \o DriverError, store |-> st]
    ELSE [err |-> NoError,
          store |-> {u \in st : ~(/\ u.deleted_at # NoTime
                                  /\ \A d \in u.deleted_at : d <= t - RetentionDays)}]

\* UserRepository.Cleanup at time t: removes the documents whose deleted_at
\* exists and is before t minus 30 days.
RepoCleanup(st, t) ==
    IF repoDown
    THEN [err |-> <<"failed to cleanup users">> \o DriverError, store |-> st]
    ELSE [err |-> NoError,
          store |-> {u \in st : ~(/\ u.deleted_at # NoTime
                                  /\ \A d \in u.deleted_at : d < t - RetentionDays)}]

\* ------------------------------------------------------------ cache gateway
\* The cache is a function from the keys present to their entries; an entry
\* holds the kind of document stored, the document and the expiration given.
\* A failure mode cf tells which of the gateway's calls fail during one
\* service operation.

NoCacheFailure == [get |-> FALSE, set |-> FALSE, del |-> FALSE]

\* RedisCache.Get: an error when the key is absent or the call fails.
CacheGet(c, key, cf) ==
    IF cf.get \/ key \notin DOMAIN c
    THEN [err |-> TRUE, entry |-> [kind |-> "", val |-> "", ttl |-> 0]]
    ELSE [err |-> FALSE, entry |-> c[key]]

\* RedisCache.Set.
CacheSet(c, key, kind, val, ttl, cf) ==
    IF cf.set THEN c
    ELSE [k \in DOMAIN c \cup {key} |->
             IF k = key THEN [kind |-> kind, val |-> val, ttl |-> ttl] ELSE c[k]]

\* RedisCache.Delete of one key.
CacheDelete(c, key, cf) ==
    IF cf.del THEN c ELSE [k \in DOMAIN c \ {key} |-> c[k]]

\* ----------------------------------------------------------------- service

KeyUser(id) == "user:id:" \o id
KeyUserByEmail(email) == "user:email:" \o email
KeyUserUsername(username) == "user:username:" \o username
KeyUserStats == "user:stats"
KeyUserExists(field, value) == "user:exists:" \o field \o ":" \o value

\* buildUserListCacheKey.
KeyUserList(q) ==
    "user:list:page:" \o ToString(q.page) \o ":limit:" \o ToString(q.limit)
        \o ":sort:" \o q.sort_by \o ":" \o q.sort_dir

\* A getUserFromCache that takes every entry it finds for a user.
getUserFromCache_AnyEntry(c, key, cf) ==
    LET r == CacheGet(c, key, cf) IN
    IF r.err
    THEN [hit |-> FALSE, user |-> ZeroUser]
    ELSE [hit |-> TRUE, user |-> UnmarshalUser(r.entry.val)]

getUserFromCache(c, key, cf) ==
    LET r == CacheGet(c, key, cf) IN
    IF r.err \/ r.entry.kind # "user"
    THEN [hit |-> FALSE, user |-> ZeroUser]
    ELSE [hit |-> TRUE, user |-> UnmarshalUser(r.entry.val)]

\* A cacheUser that stores the entity under its id key only.
cacheUser_IdKeyOnly(c, user, cf) ==
    CacheSet(c, KeyUser(user.id), "user", MarshalUser(user), UserCacheExpiration, cf)

cacheUser(c, user, cf) ==
    LET j == MarshalUser(user)
        c1 == CacheSet(c, KeyUser(user.id), "user", j, UserCacheExpiration, cf)
        c2 == CacheSet(c1, KeyUserByEmail(user.email), "user", j, UserCacheExpiration, cf)
    IN CacheSet(c2, KeyUserUsername(user.username), "user", j, UserCacheExpiration, cf)

\* An invalidation that forgets the username key.
invalidateUserCaches_KeepsUsernameKey(c, user, cf) ==
    LET c1 == CacheDelete(c, KeyUser(user.id), cf)
        c2 == CacheDelete(c1, KeyUserByEmail(user.email), cf)
        c4 == CacheDelete(c2, KeyUserExists("email", user.email), cf)
    IN CacheDelete(c4, KeyUserExists("username", user.username), cf)

\* An invalidation that forgets the id key.
invalidateUserCaches_KeepsIdKey(c, user, cf) ==
    LET c2 == CacheDelete(c, KeyUserByEmail(user.email), cf)
        c3 == CacheDelete(c2, KeyUserUsername(user.username), cf)
        c4 == CacheDelete(c3, KeyUserExists("email", user.email), cf)
    IN CacheDelete(c4, KeyUserExists("username", user.username), cf)

\* An invalidation that forgets the email key.
invalidateUserCaches_KeepsEmailKey(c, user, cf) ==
    LET c1 == CacheDelete(c, KeyUser(user.id), cf)
        c3 == CacheDelete(c1, KeyUserUsername(user.username), cf)
        c4 == CacheDelete(c3, KeyUserExists("email", user.email), cf)
    IN CacheDelete(c4, KeyUserExists("username", user.username), cf)

invalidateUserCaches(c, user, cf) ==
    LET c1 == CacheDelete(c, KeyUser(user.id), cf)
        c2 == CacheDelete(c1, KeyUserByEmail(user.email), cf)
        c3 == CacheDelete(c2, KeyUserUsername(user.username), cf)
        c4 == CacheDelete(c3, KeyUserExists("email", user.email), cf)
    IN CacheDelete(c4, KeyUserExists("username", user.username), cf)

\* invalidateUserListCaches only logs the pattern "user:list:*".
invalidateUserListCaches(c, cf) == c

\* An invalidation of the statistics that deletes nothing.
invalidateUserStats_Noop(c, cf) == c

invalidateUserStats(c, cf) == CacheDelete(c, KeyUserStats, cf)

\* A checkUserExists that sets the flag it found again, for a new expiration.
checkUserExists_RenewsOnHit(st, c, field, value, cf) ==
    LET key == KeyUserExists(field, value)
        r == CacheGet(c, key, cf)
    IN IF ~r.err
       THEN [exists |-> r.entry.kind = "flag" /\ r.entry.val = "true",
             err |-> NoError,
             cache |-> CacheSet(c, key, r.entry.kind, r.entry.val,
                                UserExistsCacheExpiration, cf),
             calls |-> 0]
       ELSE IF RepoExistsError(field) # NoError
       THEN [exists |-> FALSE, err |-> RepoExistsError(field), cache |-> c, calls |-> 1]
       ELSE LET exists == IF field = "email" THEN ExistsByEmail(st, value)
                          ELSE ExistsByUsername(st, value)
            IN [exists |-> exists, err |-> NoError,
                cache |-> CacheSet(c, key, "flag", IF exists THEN "true" ELSE "false",
                                   UserExistsCacheExpiration, cf),
                calls |-> 1]

\* checkUserExists for the fields "email" and "username".
checkUserExists(st, c, field, value, cf) ==
    LET key == KeyUserExists(field, value)
        r == CacheGet(c, key, cf)
    IN IF ~r.err
       THEN [exists |-> r.entry.kind = "flag" /\ r.entry.val = "true",
             err |-> NoError, cache |-> c, calls |-> 0]
       ELSE IF RepoExistsError(field) # NoError
       THEN [exists |-> FALSE, err |-> RepoExistsError(field), cache |-> c, calls |-> 1]
       ELSE LET exists == IF field = "email" THEN ExistsByEmail(st, value)
                          ELSE ExistsByUsername(st, value)
            IN [exists |-> exists, err |-> NoError,
                cache |-> CacheSet(c, key, "flag", IF exists THEN "true" ELSE "false",
                                   UserExistsCacheExpiration, cf),
                calls |-> 1]

\* A read-through that wraps the error of the repository.
ReadThrough_WrapsRepoError(c, key, found, cf) ==
    LET hit == getUserFromCache(c, key, cf) IN
    IF hit.hit
    THEN [err |-> NoError, user |-> hit.user, cache |-> c, calls |-> 0]
    ELSE IF found.err # NoError
    THEN [err |-> Wrap("failed to get user", found.err), user |-> ZeroUser,
          cache |-> c, calls |-> 1]
    ELSE [err |-> NoError, user |-> found.user,
          cache |-> cacheUser(c, found.user, cf), calls |-> 1]

\* A read-through that gives up when its call on the cache fails.
ReadThrough_CacheErrorSurfaces(c, key, found, cf) ==
    LET hit == getUserFromCache(c, key, cf) IN
    IF cf.get
    THEN [err |-> <<"failed to read cache">>, user |-> ZeroUser, cache |-> c, calls |-> 0]
    ELSE IF hit.hit
    THEN [err |-> NoError, user |-> hit.user, cache |-> c, calls |-> 0]
    ELSE IF found.err # NoError
    THEN [err |-> found.err, user |-> ZeroUser, cache |-> c, calls |-> 1]
    ELSE [err |-> NoError, user |-> found.user,
          cache |-> cacheUser(c, found.user, cf), calls |-> 1]

\* The shared shape of GetUserByID, GetUserByEmail and GetUserByUsername:
\* the cache under the key, else the repository's answer, cached.
ReadThrough(c, key, found, cf) ==
    LET hit == getUserFromCache(c, key, cf) IN
    IF hit.hit
    THEN [err |-> NoError, user |-> hit.user, cache |-> c, calls |-> 0]
    ELSE IF found.err # NoError
    THEN [err |-> found.err, user |-> ZeroUser, cache |-> c, calls |-> 1]
    ELSE [err |-> NoError, user |-> found.user,
          cache |-> cacheUser(c, found.user, cf), calls |-> 1]

GetUserByID(st, c, id, cf) == ReadThrough(c, KeyUser(id), RepoGetByID(st, id), cf)

GetUserByEmail(st, c, email, cf) ==
    ReadThrough(c, KeyUserByEmail(email), RepoGetByEmail(st, email), cf)

GetUserByUsername(st, c, username, cf) ==
    ReadThrough(c, KeyUserUsername(username), RepoGetByUsername(st, username), cf)

\* CreateUserRequest.Validate: trims the fields and collects the reasons.
ValidateCreate(req) ==
    ValidateUsername(TrimSpace(req.username))
        \o ValidateEmail(TrimSpace(req.email))
        \o ValidatePassword(req.password)

\* UserService.CreateUser, given the ObjectID, salt and time NewUser draws.
CreateUser(st, c, req, oid, salt, t, cf) ==
    LET fail(e, cc, n) == [err |-> e, user |-> ZeroUser, store |-> st, cache |-> cc, calls |-> n]
        username == TrimSpace(req.username)
        email == TrimSpace(req.email)
    IN
    IF ValidateCreate(req) # NoError
    THEN fail(Wrap("validation failed", ValidateCreate(req)), c, 0)
    ELSE LET x1 == checkUserExists(st, c, "username", username, cf) IN
    IF x1.err # NoError
    THEN fail(Wrap("failed to validate username", x1.err), x1.cache, x1.calls)
    ELSE IF x1.exists
    THEN fail(<<"username '%s' already exists">>, x1.cache, x1.calls)
    ELSE LET x2 == checkUserExists(st, x1.cache, "email", email, cf)
             n2 == x1.calls + x2.calls
         IN
    IF x2.err # NoError
    THEN fail(Wrap("failed to validate email", x2.err), x2.cache, n2)
    ELSE IF x2.exists
    THEN fail(<<"email '%s' already exists">>, x2.cache, n2)
    ELSE LET nu == NewUser(username, email, req.password, oid, salt, t) IN
    IF nu.err # NoError
    THEN fail(Wrap("failed to create user", nu.err), x2.cache, n2)
    ELSE LET user == [nu.user EXCEPT !.first_name = TrimSpace(req.first_name)]
             ins == RepoCreate(st, user)
         IN
    IF ins.err # NoError
    THEN fail(Wrap("failed to save user", ins.err), x2.cache, n2 + 1)
    ELSE [err |-> NoError, user |-> user, store |-> ins.store,
          cache |-> invalidateUserStats(
                        invalidateUserListCaches(cacheUser(x2.cache, user, cf), cf), cf),
          calls |-> n2 + 1]

\* The value of a pointer field of a request that is set.
Deref(opt) == CHOOSE x \in opt : TRUE

UpdateFields == {"username", "email"}

\* UpdateUserRequest.Validate; a field is the empty set (nil) or a singleton.
ValidateUpdate(req) ==
    (IF req.username # {} THEN ValidateUsername(TrimSpace(Deref(req.username))) ELSE NoError)
        \o (IF req.email # {} THEN ValidateEmail(TrimSpace(Deref(req.email))) ELSE NoError)

\* UpdateUserRequest.ToMap: the fields that are set, trimmed.
ToMap(req) ==
    [f \in {g \in UpdateFields : req[g] # {}} |-> TrimSpace(Deref(req[f]))]

\* UserService.UpdateUser at time t.
UpdateUser(st, c, id, req, t, cf) ==
    LET fail(e, cc, n) == [err |-> e, user |-> ZeroUser, store |-> st, cache |-> cc, calls |-> n]
        g == GetUserByID(st, c, id, cf)
        user == g.user
        updates == ToMap(req)
        checkName == "username" \in DOMAIN updates /\ updates["username"] # user.username
        x1 == IF checkName
              THEN checkUserExists(st, g.cache, "username", updates["username"], cf)
              ELSE [exists |-> FALSE, err |-> NoError, cache |-> g.cache, calls |-> 0]
        checkMail == "email" \in DOMAIN updates /\ updates["email"] # user.email
        x2 == IF checkMail
              THEN checkUserExists(st, x1.cache, "email", updates["email"], cf)
              ELSE [exists |-> FALSE, err |-> NoError, cache |-> x1.cache, calls |-> 0]
        n2 == g.calls + x1.calls + x2.calls
        up == RepoUpdate(st, id, updates, t)
        c3 == invalidateUserListCaches(invalidateUserCaches(x2.cache, user, cf), cf)
        got == RepoGetByID(up.store, id)
    IN
    IF ValidateUpdate(req) # NoError
    THEN fail(Wrap("validation failed", ValidateUpdate(req)), c, 0)
    ELSE IF g.err # NoError THEN fail(g.err, g.cache, g.calls)
    ELSE IF x1.err # NoError
    THEN fail(Wrap("failed to validate username", x1.err), x1.cache, g.calls + x1.calls)
    ELSE IF x1.exists THEN fail(<<"username '%s' already exists">>, x1.cache, g.calls + x1.calls)
    ELSE IF x2.err # NoError
    THEN fail(Wrap("failed to validate email", x2.err), x2.cache, n2)
    ELSE IF x2.exists THEN fail(<<"email '%s' already exists">>, x2.cache, n2)
    ELSE IF up.err # NoError
    THEN fail(Wrap("failed to update user", up.err), x2.cache, n2 + 1)
    ELSE IF got.err # NoError
    THEN [err |-> Wrap("failed to retrieve updated user", got.err), user |-> ZeroUser,
          store |-> up.store, cache |-> c3, calls |-> n2 + 2]
    ELSE [err |-> NoError, user |-> got.user, store |-> up.store,
          cache |-> cacheUser(c3, got.user, cf), calls |-> n2 + 2]

\* A DeleteUser that invalidates the caches before it calls SoftDelete.
DeleteUser_InvalidatesFirst(st, c, id, t, cf) ==
    LET g == GetUserByID(st, c, id, cf)
        c1 == invalidateUserStats(
                  invalidateUserListCaches(invalidateUserCaches(g.cache, g.user, cf), cf), cf)
        del == RepoSoftDelete(st, id, t)
    IN
    IF g.err # NoError
    THEN [err |-> g.err, store |-> st, cache |-> g.cache, calls |-> g.calls]
    ELSE IF del.err # NoError
    THEN [err |-> Wrap("failed to delete user", del.err), store |-> st,
          cache |-> c1, calls |-> g.calls + 1]
    ELSE [err |-> NoError, store |-> del.store, cache |-> c1, calls |-> g.calls + 1]

\* UserService.DeleteUser at time t.
DeleteUser(st, c, id, t, cf) ==
    LET g == GetUserByID(st, c, id, cf)
        del == RepoSoftDelete(st, id, t)
    IN
    IF g.err # NoError
    THEN [err |-> g.err, store |-> st, cache |-> g.cache, calls |-> g.calls]
    ELSE IF del.err # NoError
    THEN [err |-> Wrap("failed to delete user", del.err), store |-> st,
          cache |-> g.cache, calls |-> g.calls + 1]
    ELSE [err |-> NoError, store |-> del.store,
          cache |-> invalidateUserStats(
                        invalidateUserListCaches(
                            invalidateUserCaches(g.cache, g.user, cf), cf), cf),
          calls |-> g.calls + 1]

\* ChangePasswordRequest.Validate.
ValidateChangePassword(req) ==
    (IF req.current_password = "" THEN <<"current password is required">> ELSE NoError)
        \o ValidatePassword(req.new_password)
        \o (IF req.new_password # req.confirm_password
            THEN <<"new password and confirm password do not match">> ELSE NoError)
        \o (IF req.current_password = req.new_password
            THEN <<"new password must be different from current password">> ELSE NoError)

\* UserService.ChangePassword, given the salt SetPassword draws, at time t.
ChangePassword(st, c, id, req, salt, t, cf) ==
    LET g == GetUserByID(st, c, id, cf)
        sp == SetPassword(g.user, req.new_password, salt, t)
        up == RepoUpdate(st, id,
                         ("password" :> sp.user.password) @@ ("salt" :> sp.user.salt), t)
    IN
    IF ValidateChangePassword(req) # NoError
    THEN [err |-> Wrap("validation failed", ValidateChangePassword(req)),
          store |-> st, cache |-> c, calls |-> 0]
    ELSE IF g.err # NoError
    THEN [err |-> g.err, store |-> st, cache |-> g.cache, calls |-> g.calls]
    ELSE IF ~CheckPassword(g.user, req.current_password)
    THEN [err |-> <<"current password is incorrect">>, store |-> st,
          cache |-> g.cache, calls |-> g.calls]
    ELSE IF sp.err # NoError
    THEN [err |-> Wrap("failed to set new password", sp.err), store |-> st,
          cache |-> g.cache, calls |-> g.calls]
    ELSE IF up.err # NoError
    THEN [err |-> Wrap("failed to update password", up.err), store |-> st,
          cache |-> g.cache, calls |-> g.calls + 1]
    ELSE [err |-> NoError, store |-> up.store,
          cache |-> invalidateUserCaches(g.cache, sp.user, cf), calls |-> g.calls + 1]

\* UserService.VerifyUser at time t.
VerifyUser(st, c, id, t, cf) ==
    LET g == GetUserByID(st, c, id, cf)
        mv == RepoMarkAsVerified(st, id, t)
    IN
    IF g.err # NoError
    THEN [err |-> g.err, store |-> st, cache |-> g.cache, calls |-> g.calls]
    ELSE IF g.user.is_verified
    THEN [err |-> <<"user is already verified">>, store |-> st,
          cache |-> g.cache, calls |-> g.calls]
    ELSE IF mv.err # NoError
    THEN [err |-> Wrap("failed to verify user", mv.err), store |-> st,
          cache |-> g.cache, calls |-> g.calls + 1]
    ELSE [err |-> NoError, store |-> mv.store,
          cache |-> invalidateUserStats(invalidateUserCaches(g.cache, g.user, cf), cf),
          calls |-> g.calls + 1]

\* UserService.GetUserStats.
GetUserStats(st, c, cf) ==
    LET r == CacheGet(c, KeyUserStats, cf)
        stats == RepoGetUserStats(st)
    IN
    IF ~r.err /\ r.entry.kind = "stats"
    THEN [err |-> NoError, stats |-> r.entry.val, cache |-> c, calls |-> 0]
    ELSE IF RepoGetUserStatsError # NoError
    THEN [err |-> Wrap("failed to get user stats", RepoGetUserStatsError),
          stats |-> NoStats, cache |-> c, calls |-> 1]
    ELSE [err |-> NoError, stats |-> stats,
          cache |-> CacheSet(c, KeyUserStats, "stats", stats, UserStatsCacheExpiration, cf),
          calls |-> 1]

\* User.ToUserResponse.
ToUserResponse(u) ==
    [id |-> u.id, username |-> u.username, email |-> u.email,
     first_name |-> u.first_name,
     full_name |-> IF TrimSpace(u.first_name) = "" THEN u.username ELSE u.first_name,
     is_active |-> u.is_active, is_verified |-> u.is_verified,
     roles |-> u.roles, email_verified_at |-> u.email_verified_at,
     login_count |-> u.login_count, last_login_at |-> u.last_login_at,
     created_at |-> u.created_at, updated_at |-> u.updated_at]

\* json.Marshal of a UserResponse followed by json.Unmarshal into a User.
UserFromResponse(r) ==
    [ZeroUser EXCEPT
        !.id = r.id, !.username = r.username, !.email = r.email,
        !.first_name = r.first_name,
        !.is_active = r.is_active, !.is_verified = r.is_verified,
        !.roles = r.roles, !.email_verified_at = r.email_verified_at,
        !.login_count = r.login_count, !.last_login_at = r.last_login_at,
        !.created_at = r.created_at, !.updated_at = r.updated_at]

isCacheableQuery(q) == q.search = "" /\ q.role = "" /\ q.is_active = {}

\* UserService.GetUsers.
GetUsers(st, c, params, cf) ==
    LET q == SetDefaults(params)
        key == KeyUserList(q)
        r == CacheGet(c, key, cf)
        all == RepoGetAll(st, q)
        list == [users |-> [i \in 1..Len(all.users) |-> ToUserResponse(all.users[i])],
                 total |-> all.total, page |-> q.page, limit |-> q.limit]
    IN
    IF isCacheableQuery(q) /\ ~r.err /\ r.entry.kind = "list"
    THEN [err |-> NoError,
          users |-> [i \in 1..Len(r.entry.val.users) |-> UserFromResponse(r.entry.val.users[i])],
          total |-> r.entry.val.total, cache |-> c, calls |-> 0]
    ELSE IF all.err # NoError
    THEN [err |-> Wrap("failed to get users", all.err), users |-> <<>>, total |-> 0,
          cache |-> c, calls |-> 1]
    ELSE [err |-> NoError, users |-> all.users, total |-> all.total,
          cache |-> IF isCacheableQuery(q)
                    THEN CacheSet(c, key, "list", list, UserListCacheExpiration, cf)
                    ELSE c,
          calls |-> 1]

\* response.NewMeta: the pagination block of a list response.
NewMeta(page, limit, total) ==
    [page |-> page, limit |-> limit, total |-> total,
     total_pages |-> (total + limit - 1) \div limit]

\* ------------------------------------------------- sequential histories
\* Every service operation is one step; the clock stands still.

Callers == {1, 2}

\* A caller between calls, having begun n calls.
Idle == [pc |-> "idle", n |-> 0]

DocOf(st, id) ==
    IF \E u \in st : u.id = id THEN CHOOSE u \in st : u.id = id ELSE ZeroUser

LookupUsernames == Usernames \cup {ToLower(u) : u \in Usernames}

Optional(S) == {{}} \cup {{x} : x \in S}

CreateRequests ==
    [username : Usernames \cup BadUsernames, email : Emails,
     password : Passwords, first_name : {""}]

UpdateRequests == [username : Optional(Usernames), email : Optional(Emails)]

ChangePasswordRequests ==
    [current_password : Passwords, new_password : Passwords,
     confirm_password : Passwords]

\* page 0 / limit 0 are out of range and take the defaults.
ListQueries ==
    {[page |-> 0, limit |-> 0, search |-> "", role |-> "", is_active |-> {},
      sort_by |-> "", sort_dir |-> ""],
     [page |-> 1, limit |-> 20, search |-> "ann", role |-> "", is_active |-> {},
      sort_by |-> "", sort_dir |-> ""]}

Init ==
    /\ store = {}
    /\ cache = <<>>
    /\ nextId = 1
    /\ now = 0
    /\ procs = [p \in Callers |-> Idle]
    /\ repoDown = FALSE

DoCreateUser ==
    \E req \in CreateRequests, salt \in Salts :
        LET r == CreateUser(store, cache, req, ObjectID(nextId), salt, now, NoCacheFailure) IN
        /\ nextId <= MaxUsers
        /\ store' = r.store
        /\ cache' = r.cache
        /\ nextId' = IF r.err = NoError THEN nextId + 1 ELSE nextId
        /\ UNCHANGED <<now, procs, repoDown>>

DoGetUserByID ==
    \E id \in IdInputs :
        /\ cache' = GetUserByID(store, cache, id, NoCacheFailure).cache
        /\ UNCHANGED <<store, nextId, now, procs, repoDown>>

DoGetUserByEmail ==
    \E email \in Emails :
        /\ cache' = GetUserByEmail(store, cache, email, NoCacheFailure).cache
        /\ UNCHANGED <<store, nextId, now, procs, repoDown>>

DoGetUserByUsername ==
    \E username \in LookupUsernames :
        /\ cache' = GetUserByUsername(store, cache, username, NoCacheFailure).cache
        /\ UNCHANGED <<store, nextId, now, procs, repoDown>>

DoUpdateUser ==
    \E id \in IdInputs, req \in UpdateRequests :
        LET r == UpdateUser(store, cache, id, req, now, NoCacheFailure) IN
        /\ store' = r.store
        /\ cache' = r.cache
        /\ UNCHANGED <<nextId, now, procs, repoDown>>

DoDeleteUser ==
    \E id \in IdInputs :
        LET r == DeleteUser(store, cache, id, now, NoCacheFailure) IN
        /\ store' = r.store
        /\ cache' = r.cache
        /\ UNCHANGED <<nextId, now, procs, repoDown>>

DoChangePassword ==
    \E id \in IdInputs, req \in ChangePasswordRequests, salt \in Salts :
        LET r == ChangePassword(store, cache, id, req, salt, now, NoCacheFailure) IN
        /\ store' = r.store
        /\ cache' = r.cache
        /\ UNCHANGED <<nextId, now, procs, repoDown>>

DoVerifyUser ==
    \E id \in IdInputs :
        LET r == VerifyUser(store, cache, id, now, NoCacheFailure) IN
        /\ store' = r.store
        /\ cache' = r.cache
        /\ UNCHANGED <<nextId, now, procs, repoDown>>

DoGetUserStats ==
    /\ cache' = GetUserStats(store, cache, NoCacheFailure).cache
    /\ UNCHANGED <<store, nextId, now, procs, repoDown>>

DoGetUsers ==
    \E q \in ListQueries :
        /\ cache' = GetUsers(store, cache, q, NoCacheFailure).cache
        /\ UNCHANGED <<store, nextId, now, procs, repoDown>>

Next ==
    \/ DoCreateUser
    \/ DoGetUserByID
    \/ DoGetUserByEmail
    \/ DoGetUserByUsername
    \/ DoUpdateUser
    \/ DoDeleteUser
    \/ DoChangePassword
    \/ DoVerifyUser
    \/ DoGetUserStats

Spec == Init /\ [][Next]_vars

\* Histories of the operations that change the membership of the user list,
\* and of list queries.
NextLists ==
    \/ DoCreateUser
    \/ DoUpdateUser
    \/ DoDeleteUser
    \/ DoGetUsers

SpecLists == Init /\ [][NextLists]_vars

\* ------------------------------------------------- concurrent callers
\* Two callers run CreateUser, UpdateUser and DeleteUser at once.  A step is
\* one call on the cache or on the store together with the local computation
\* that follows it; procs[p] holds the caller's position and locals.

StatusOK == 200
StatusCreated == 201
StatusBadRequest == 400
StatusNotFound == 404
StatusConflict == 409
StatusInternalServerError == 500

\* UserHandler.CreateUser: the status it answers for the service's result.
CreateUserStatus(err) ==
    IF err = NoError THEN StatusCreated
    ELSE IF ErrContains(err, "already exists") THEN StatusConflict
    ELSE IF ErrContains(err, "validation failed") THEN StatusBadRequest
    ELSE StatusInternalServerError

\* The answer of the handler of operation op to the error err of the
\* service: the status and the message of the response. The handlers tell
\* the errors apart by the text they contain.
HandlerResponse(op, err) ==
    LET ok(status) == [status |-> status, message |-> NoError]
        badRequest == [status |-> StatusBadRequest, message |-> err]
        conflict == [status |-> StatusConflict, message |-> err]
        notFound == [status |-> StatusNotFound, message |-> <<"User not found">>]
        internal == [status |-> StatusInternalServerError,
                     message |-> <<"An internal server error occurred">>]
    IN
    CASE op = "CreateUser" ->
             IF err = NoError THEN ok(StatusCreated)
             ELSE IF ErrContains(err, "already exists") THEN conflict
             ELSE IF ErrContains(err, "validation failed") THEN badRequest
             ELSE internal
      [] op = "UpdateUser" ->
             IF err = NoError THEN ok(StatusOK)
             ELSE IF ErrContains(err, "not found") THEN notFound
             ELSE IF ErrContains(err, "already exists") THEN conflict
             ELSE IF ErrContains(err, "validation failed") THEN badRequest
             ELSE internal
      [] op = "ChangePassword" ->
             IF err = NoError THEN ok(StatusOK)
             ELSE IF ErrContains(err, "not found") THEN notFound
             ELSE IF ErrContains(err, "validation failed") \/ ErrContains(err, "incorrect")
             THEN badRequest
             ELSE internal
      [] op = "VerifyUser" ->
             IF err = NoError THEN ok(StatusOK)
             ELSE IF ErrContains(err, "not found") THEN notFound
             ELSE IF ErrContains(err, "already verified") THEN badRequest
             ELSE internal
      [] op \in {"GetUser", "DeleteUser"} ->
             IF err = NoError THEN ok(StatusOK)
             ELSE IF ErrContains(err, "not found") THEN notFound
             ELSE internal

\* The page and limit parameters of a list request: absent ({}) or a number.
RawListQueries == [page : Optional(-1..2), limit : Optional({0, 1, MaxLimit, MaxLimit + 1})]

\* UserHandler.parseUsersQueryParams on a request that carries at most the
\* page and limit parameters.
parseUsersQueryParams(raw) ==
    LET zero == [page |-> 0, limit |-> 0, search |-> "", role |-> "", is_active |-> {},
                 sort_by |-> "", sort_dir |-> ""]
    IN
    IF raw.page # {} /\ ~(Deref(raw.page) > 0)
    THEN [err |-> <<"invalid page parameter">>, params |-> zero]
    ELSE IF raw.limit # {} /\ ~(Deref(raw.limit) > 0 /\ Deref(raw.limit) <= 100)
    THEN [err |-> <<"invalid limit parameter (must be between 1 and 100)">>,
          params |-> zero]
    ELSE [err |-> NoError,
          params |-> SetDefaults(
              [zero EXCEPT !.page = IF raw.page = {} THEN 0 ELSE Deref(raw.page),
                           !.limit = IF raw.limit = {} THEN 0 ELSE Deref(raw.limit)])]

\* UserHandler.GetUsers: the status of the response and, when it is 200, the
\* page and limit served and the pagination block.
GetUsersHandler(st, c, raw, cf) ==
    LET parsed == parseUsersQueryParams(raw)
        got == GetUsers(st, c, parsed.params, cf)
        failed(status) == [status |-> status, page |-> 0, limit |-> 0,
                           meta |-> NewMeta(0, 1, 0), cache |-> c]
    IN
    IF parsed.err # NoError THEN failed(StatusBadRequest)
    ELSE IF got.err # NoError THEN failed(StatusInternalServerError)
    ELSE [status |-> StatusOK, page |-> parsed.params.page, limit |-> parsed.params.limit,
          meta |-> NewMeta(parsed.params.page, parsed.params.limit, got.total),
          cache |-> got.cache]

ConcCreateRequests ==
    {req \in CreateRequests : req.password = "Passw0rdA" /\ req.username \in Usernames}

\* Updates that take the username "ann", the email "b@x.io", or both.
ConcUpdateRequests ==
    {req \in UpdateRequests : req.username \subseteq {"ann"} /\ req.email \subseteq {"b@x.io"}
                              /\ req.username \cup req.email # {}}

ConcIds == {ObjectID(n) : n \in 1..MaxUsers}

\* The calls begun so far.
Begun == procs[1].n + procs[2].n

\* The locals of a call that begins at position pc.
Frame(op, pc) ==
    [pc |-> pc, n |-> 0, op |-> op, id |-> "", req |-> <<>>, salt |-> "",
     user |-> ZeroUser, cu |-> ZeroUser, k |-> 0, ret |-> "", after |-> "",
     field |-> "", value |-> "", exists |-> FALSE, err |-> NoError]

\* The call has returned err to its caller.
Finish(l, e) ==
    [pc |-> "done", n |-> l.n, op |-> l.op, id |-> l.id, req |-> l.req, err |-> e]

\* Enter checkUserExists(field, value) and go on at ret if it answers false.
CallExists(l, field, value, ret) ==
    [l EXCEPT !.pc = "ex_get", !.field = field, !.value = value, !.ret = ret]

\* UpdateUser's check of the email, when the request changes it.
UpdMailCheck(l) ==
    LET updates == ToMap(l.req) IN
    IF "email" \in DOMAIN updates /\ updates["email"] # l.user.email
    THEN CallExists(l, "email", updates["email"], "u_update")
    ELSE [l EXCEPT !.pc = "u_update"]

\* UpdateUser's check of the username, when the request changes it.
UpdNameCheck(l) ==
    LET updates == ToMap(l.req) IN
    IF "username" \in DOMAIN updates /\ updates["username"] # l.user.username
    THEN CallExists(l, "username", updates["username"], "u_mail")
    ELSE UpdMailCheck(l)

\* CreateUser's NewUser, after both checks answered false.
CreateNewUser(l) ==
    LET nu == NewUser(TrimSpace(l.req.username), TrimSpace(l.req.email),
                      l.req.password, l.id, l.salt, now)
    IN IF nu.err # NoError
       THEN Finish(l, Wrap("failed to create user", nu.err))
       ELSE [l EXCEPT !.pc = "rc_username",
                      !.user = [nu.user EXCEPT !.first_name = TrimSpace(l.req.first_name)]]

\* The local computation up to the next call, from position label on.
Resume(l, label) ==
    CASE label = "c_email" -> CallExists(l, "email", TrimSpace(l.req.email), "c_new")
      [] label = "c_new" -> CreateNewUser(l)
      [] label = "u_checks" -> UpdNameCheck(l)
      [] label = "u_mail" -> UpdMailCheck(l)
      [] label = "return" -> Finish(l, NoError)
      [] OTHER -> [l EXCEPT !.pc = label]

\* Enter cacheUser(user) and go on at after.
CallCacheUser(l, user, after) ==
    [l EXCEPT !.pc = "cache_user", !.cu = user, !.k = 1, !.after = after]

\* Enter invalidateUserCaches(l.user) and go on at after.
CallInvalidate(l, after) == [l EXCEPT !.pc = "invalidate", !.k = 1, !.after = after]

AfterExists(l, exists) ==
    IF exists
    THEN Finish(l, IF l.field = "username" THEN <<"username '%s' already exists">>
                   ELSE <<"email '%s' already exists">>)
    ELSE Resume(l, l.ret)

At_(p, pc) == procs[p].pc = pc

\* A free caller that may begin one more call.
Free(p) == At_(p, "idle") /\ Begun < MaxCalls

Goes(p, l) == procs' = [procs EXCEPT ![p] = l]

\* UserService.CreateUser up to its first call; NewUser's ObjectID is drawn
\* here.
StartCreateUser(p) ==
    /\ Free(p)
    /\ nextId <= MaxUsers
    /\ \E req \in ConcCreateRequests, salt \in Salts :
        LET l == [Frame("CreateUser", "idle") EXCEPT
                     !.n = procs[p].n + 1, !.id = ObjectID(nextId), !.req = req,
                     !.salt = salt]
        IN Goes(p, IF ValidateCreate(req) # NoError
                   THEN Finish(l, Wrap("validation failed", ValidateCreate(req)))
                   ELSE CallExists(l, "username", TrimSpace(req.username), "c_email"))
    /\ nextId' = nextId + 1
    /\ UNCHANGED <<store, cache, now, repoDown>>

\* UserService.UpdateUser up to its first call.
StartUpdateUser(p) ==
    /\ Free(p)
    /\ \E id \in ConcIds, req \in ConcUpdateRequests :
        LET l == [Frame("UpdateUser", "get_cache") EXCEPT
                     !.n = procs[p].n + 1, !.id = id, !.req = req, !.ret = "u_checks"]
        IN Goes(p, IF ValidateUpdate(req) # NoError
                   THEN Finish(l, Wrap("validation failed", ValidateUpdate(req)))
                   ELSE l)
    /\ UNCHANGED <<store, cache, nextId, now, repoDown>>

\* UserService.DeleteUser up to its first call.
StartDeleteUser(p) ==
    /\ Free(p)
    /\ \E id \in ConcIds :
        Goes(p, [Frame("DeleteUser", "get_cache") EXCEPT
                    !.n = procs[p].n + 1, !.id = id, !.ret = "d_soft"])
    /\ UNCHANGED <<store, cache, nextId, now, repoDown>>

\* GetUserByID: the read of the id key.
StepGetCache(p) ==
    /\ At_(p, "get_cache")
    /\ LET l == procs[p]
           hit == getUserFromCache(cache, KeyUser(l.id), NoCacheFailure)
       IN Goes(p, IF hit.hit THEN Resume([l EXCEPT !.user = hit.user], l.ret)
                  ELSE [l EXCEPT !.pc = "get_repo"])
    /\ UNCHANGED <<store, cache, nextId, now, repoDown>>

\* GetUserByID: the repository's GetByID after a miss.
StepGetRepo(p) ==
    /\ At_(p, "get_repo")
    /\ LET l == procs[p]
           r == RepoGetByID(store, l.id)
       IN Goes(p, IF r.err # NoError THEN Finish(l, r.err)
                  ELSE CallCacheUser([l EXCEPT !.user = r.user], r.user, l.ret))
    /\ UNCHANGED <<store, cache, nextId, now, repoDown>>

\* cacheUser: its k-th Set of three.
StepCacheUser(p) ==
    /\ At_(p, "cache_user")
    /\ LET l == procs[p]
           key == CASE l.k = 1 -> KeyUser(l.cu.id)
                    [] l.k = 2 -> KeyUserByEmail(l.cu.email)
                    [] OTHER -> KeyUserUsername(l.cu.username)
       IN /\ cache' = CacheSet(cache, key, "user", MarshalUser(l.cu),
                               UserCacheExpiration, NoCacheFailure)
          /\ Goes(p, IF l.k < 3 THEN [l EXCEPT !.k = l.k + 1]
                     ELSE Resume([l EXCEPT !.k = 0, !.cu = ZeroUser], l.after))
    /\ UNCHANGED <<store, nextId, now, repoDown>>

\* invalidateUserCaches: its k-th Delete of five, on the keys of the
\* snapshot the call read.
StepInvalidate(p) ==
    /\ At_(p, "invalidate")
    /\ LET l == procs[p]
           key == CASE l.k = 1 -> KeyUser(l.user.id)
                    [] l.k = 2 -> KeyUserByEmail(l.user.email)
                    [] l.k = 3 -> KeyUserUsername(l.user.username)
                    [] l.k = 4 -> KeyUserExists("email", l.user.email)
                    [] OTHER -> KeyUserExists("username", l.user.username)
       IN /\ cache' = CacheDelete(cache, key, NoCacheFailure)
          /\ Goes(p, IF l.k < 5 THEN [l EXCEPT !.k = l.k + 1]
                     ELSE Resume([l EXCEPT !.k = 0], l.after))
    /\ UNCHANGED <<store, nextId, now, repoDown>>

\* checkUserExists: the read of the flag.
StepExistsGet(p) ==
    /\ At_(p, "ex_get")
    /\ LET l == procs[p]
           r == CacheGet(cache, KeyUserExists(l.field, l.value), NoCacheFailure)
       IN Goes(p, IF ~r.err
                  THEN AfterExists(l, r.entry.kind = "flag" /\ r.entry.val = "true")
                  ELSE [l EXCEPT !.pc = "ex_repo"])
    /\ UNCHANGED <<store, cache, nextId, now, repoDown>>

\* checkUserExists: the repository's answer after a miss.
StepExistsRepo(p) ==
    /\ At_(p, "ex_repo")
    /\ LET l == procs[p] IN
       Goes(p, IF RepoExistsError(l.field) # NoError
               THEN Finish(l, Wrap(IF l.field = "username"
                                   THEN "failed to validate username"
                                   ELSE "failed to validate email",
                                   RepoExistsError(l.field)))
               ELSE
               [l EXCEPT !.pc = "ex_set",
                         !.exists = IF l.field = "email" THEN ExistsByEmail(store, l.value)
                                    ELSE ExistsByUsername(store, l.value)])
    /\ UNCHANGED <<store, cache, nextId, now, repoDown>>

\* checkUserExists: the write of the flag.
StepExistsSet(p) ==
    /\ At_(p, "ex_set")
    /\ LET l == procs[p] IN
       /\ cache' = CacheSet(cache, KeyUserExists(l.field, l.value), "flag",
                            IF l.exists THEN "true" ELSE "false",
                            UserExistsCacheExpiration, NoCacheFailure)
       /\ Goes(p, AfterExists([l EXCEPT !.exists = FALSE], l.exists))
    /\ UNCHANGED <<store, nextId, now, repoDown>>

\* UserRepository.Create: ExistsByUsername.
StepCreateCheckUsername(p) ==
    /\ At_(p, "rc_username")
    /\ LET l == procs[p] IN
       Goes(p, IF RepoExistsError("username") # NoError
               THEN Finish(l, Wrap("failed to save user", RepoExistsError("username")))
               ELSE IF ExistsByUsername(store, l.user.username)
               THEN Finish(l, Wrap("failed to save user", <<"username already exists">>))
               ELSE [l EXCEPT !.pc = "rc_email"])
    /\ UNCHANGED <<store, cache, nextId, now, repoDown>>

\* UserRepository.Create: ExistsByEmail.
StepCreateCheckEmail(p) ==
    /\ At_(p, "rc_email")
    /\ LET l == procs[p] IN
       Goes(p, IF RepoExistsError("email") # NoError
               THEN Finish(l, Wrap("failed to save user", RepoExistsError("email")))
               ELSE IF ExistsByEmail(store, l.user.email)
               THEN Finish(l, Wrap("failed to save user", <<"email already exists">>))
               ELSE [l EXCEPT !.pc = "rc_insert"])
    /\ UNCHANGED <<store, cache, nextId, now, repoDown>>

\* UserRepository.Create: InsertOne.
StepCreateInsert(p) ==
    /\ At_(p, "rc_insert")
    /\ LET l == procs[p]
           r == IF repoDown THEN [err |-> DriverError, store |-> store]
                ELSE InsertOne(store, l.user)
       IN /\ store' = r.store
          /\ Goes(p, IF r.err # NoError
                     THEN Finish(l, Wrap("failed to save user",
                                         Wrap("failed to create user", r.err)))
                     ELSE CallCacheUser(l, l.user, "stats"))
    /\ UNCHANGED <<cache, nextId, now, repoDown>>

\* invalidateUserStats, the last call of CreateUser and of DeleteUser.
StepInvalidateStats(p) ==
    /\ At_(p, "stats")
    /\ cache' = invalidateUserStats(cache, NoCacheFailure)
    /\ Goes(p, Finish(procs[p], NoError))
    /\ UNCHANGED <<store, nextId, now, repoDown>>

\* UpdateUser: the repository's Update.
StepUpdate(p) ==
    /\ At_(p, "u_update")
    /\ LET l == procs[p]
           r == RepoUpdate(store, l.id, ToMap(l.req), now)
       IN /\ store' = r.store
          /\ Goes(p, IF r.err # NoError
                     THEN Finish(l, Wrap("failed to update user", r.err))
                     ELSE CallInvalidate(l, "u_reget"))
    /\ UNCHANGED <<cache, nextId, now, repoDown>>

\* UpdateUser: the repository's GetByID of the updated user.
StepUpdateReget(p) ==
    /\ At_(p, "u_reget")
    /\ LET l == procs[p]
           r == RepoGetByID(store, l.id)
       IN Goes(p, IF r.err # NoError
                  THEN Finish(l, Wrap("failed to retrieve updated user", r.err))
                  ELSE CallCacheUser(l, r.user, "return"))
    /\ UNCHANGED <<store, cache, nextId, now, repoDown>>

\* DeleteUser: the repository's SoftDelete.
StepSoftDelete(p) ==
    /\ At_(p, "d_soft")
    /\ LET l == procs[p]
           r == RepoSoftDelete(store, l.id, now)
       IN /\ store' = r.store
          /\ Goes(p, IF r.err # NoError
                     THEN Finish(l, Wrap("failed to delete user", r.err))
                     ELSE CallInvalidate(l, "stats"))
    /\ UNCHANGED <<cache, nextId, now, repoDown>>

\* The caller takes the result and is free for its next request.
Return(p) ==
    /\ At_(p, "done")
    /\ Goes(p, [Idle EXCEPT !.n = procs[p].n])
    /\ UNCHANGED <<store, cache, nextId, now, repoDown>>

NextConc ==
    \E p \in Callers :
        \/ StartCreateUser(p)
        \/ StartUpdateUser(p)
        \/ StartDeleteUser(p)
        \/ StepGetCache(p)
        \/ StepGetRepo(p)
        \/ StepCacheUser(p)
        \/ StepInvalidate(p)
        \/ StepExistsGet(p)
        \/ StepExistsRepo(p)
        \/ StepExistsSet(p)
        \/ StepCreateCheckUsername(p)
        \/ StepCreateCheckEmail(p)
        \/ StepCreateInsert(p)
        \/ StepInvalidateStats(p)
        \/ StepUpdate(p)
        \/ StepUpdateReget(p)
        \/ StepSoftDelete(p)
        \/ Return(p)

SpecConc == Init /\ [][NextConc]_vars

\* ----------------------------------------------- histories with failures
\* Sequential histories in which the calls on the cache may fail during an
\* operation (cf says which kinds of call fail) and the database may be
\* unreachable for a while (repoDown).

CacheFailures == [get : BOOLEAN, set : BOOLEAN, del : BOOLEAN]

\* The cache is unreachable for a whole operation.
CacheDown == [get |-> TRUE, set |-> TRUE, del |-> TRUE]

\* The failures the histories go through: none, or an outage of the cache.
Outages == {NoCacheFailure, CacheDown}

\* The registrations of "ann" and of "Bob", each with an address of their own.
FaultyCreateRequests ==
    {req \in ConcCreateRequests :
        (req.username = "ann") <=> (req.email = "a@x.io")}

\* The request that changes the password "Passw0rdA" to "Passw0rdB".
FaultyChangePasswordRequests ==
    {req \in ChangePasswordRequests :
        /\ req.current_password = "Passw0rdA"
        /\ req.new_password = "Passw0rdB"
        /\ req.confirm_password = "Passw0rdB"}

FaultyCreateUser ==
    \E cf \in Outages, req \in FaultyCreateRequests, salt \in Salts :
        LET r == CreateUser(store, cache, req, ObjectID(nextId), salt, now, cf) IN
        /\ nextId <= MaxUsers
        /\ store' = r.store
        /\ cache' = r.cache
        /\ nextId' = IF r.err = NoError THEN nextId + 1 ELSE nextId
        /\ UNCHANGED <<now, procs, repoDown>>

FaultyGetUserByID ==
    \E cf \in Outages, id \in ConcIds :
        /\ cache' = GetUserByID(store, cache, id, cf).cache
        /\ UNCHANGED <<store, nextId, now, procs, repoDown>>

FaultyUpdateUser ==
    \E cf \in Outages, id \in ConcIds, req \in ConcUpdateRequests :
        LET r == UpdateUser(store, cache, id, req, now, cf) IN
        /\ store' = r.store
        /\ cache' = r.cache
        /\ UNCHANGED <<nextId, now, procs, repoDown>>

FaultyDeleteUser ==
    \E cf \in Outages, id \in ConcIds :
        LET r == DeleteUser(store, cache, id, now, cf) IN
        /\ store' = r.store
        /\ cache' = r.cache
        /\ UNCHANGED <<nextId, now, procs, repoDown>>

FaultyChangePassword ==
    \E cf \in Outages, id \in ConcIds, req \in FaultyChangePasswordRequests,
       salt \in Salts :
        LET r == ChangePassword(store, cache, id, req, salt, now, cf) IN
        /\ store' = r.store
        /\ cache' = r.cache
        /\ UNCHANGED <<nextId, now, procs, repoDown>>

FaultyVerifyUser ==
    \E cf \in Outages, id \in ConcIds :
        LET r == VerifyUser(store, cache, id, now, cf) IN
        /\ store' = r.store
        /\ cache' = r.cache
        /\ UNCHANGED <<nextId, now, procs, repoDown>>

\* The database becomes unreachable, or reachable again.
RepoAvailabilityChanges ==
    /\ repoDown' = ~repoDown
    /\ UNCHANGED <<store, cache, nextId, now, procs>>

NextFail ==
    \/ FaultyCreateUser
    \/ FaultyGetUserByID
    \/ FaultyUpdateUser
    \/ FaultyDeleteUser
    \/ FaultyChangePassword
    \/ FaultyVerifyUser
    \/ RepoAvailabilityChanges

SpecFail == Init /\ [][NextFail]_vars

\* ------------------------------------------------- histories with sweeps
\* Sequential histories of creations and soft deletions in which days pass,
\* the maintenance sweep runs and records are deleted for good.

\* The days the clock shows.
ClockValues == {0, 1, RetentionDays, RetentionDays + 1, RetentionDays + 2}

\* Days pass.
Tick ==
    /\ \E t \in ClockValues : t > now /\ now' = t
    /\ UNCHANGED <<store, cache, nextId, procs, repoDown>>

DoCleanup ==
    /\ store' = RepoCleanup(store, now).store
    /\ UNCHANGED <<cache, nextId, now, procs, repoDown>>

DoDelete ==
    \E id \in IdInputs :
        /\ store' = RepoDelete(store, id).store
        /\ UNCHANGED <<cache, nextId, now, procs, repoDown>>

NextSweep ==
    \/ DoCreateUser
    \/ DoDeleteUser
    \/ Tick
    \/ DoCleanup
    \/ DoDelete

SpecSweep == Init /\ [][NextSweep]_vars

\* ------------------------------------------------- histories with expiry
\* The clock counts minutes here.  Redis keeps an entry for the expiration it
\* was set with: the ttl of an entry is the time it still has to live.

MaxMinutes == 15
ElapsedMinutes == {5, 10}

\* The cache d minutes later.
AgeCache(c, d) ==
    [k \in {x \in DOMAIN c : c[x].ttl > d} |-> [c[k] EXCEPT !.ttl = @ - d]]

Elapse ==
    \E d \in ElapsedMinutes :
        /\ now + d <= MaxMinutes
        /\ now' = now + d
        /\ cache' = AgeCache(cache, d)
        /\ UNCHANGED <<store, nextId, procs, repoDown>>

NextTTL ==
    \/ DoCreateUser
    \/ DoDeleteUser
    \/ DoGetUserStats
    \/ DoGetUsers
    \/ Elapse

SpecTTL == Init /\ [][NextTTL]_vars

\* ------------------------------------------------- one entity in memory
\* The methods of one User value while minutes pass.  store holds that value
\* alone; procs is what its caller has counted: the failed logins since the
\* last successful login and the time of the last failed one.

MaxFailures == 6
MaxLogins == 2
MaxLockMinutes == 60

RoleInputs == {RoleUser, RoleAdmin}

InitEntity ==
    /\ store = {NewUser("ann", "a@x.io", "Passw0rdA", ObjectID(1), "s1", 0).user}
    /\ cache = <<>>
    /\ nextId = 2
    /\ now = 0
    /\ procs = [streak |-> 0, last_failed |-> NoTime]
    /\ repoDown = FALSE

DoAddRole ==
    \E u \in store, role \in RoleInputs :
        /\ store' = {AddRole(u, role, now)}
        /\ UNCHANGED <<cache, nextId, now, procs, repoDown>>

DoRemoveRole ==
    \E u \in store, role \in RoleInputs :
        /\ store' = {RemoveRole(u, role, now)}
        /\ UNCHANGED <<cache, nextId, now, procs, repoDown>>

DoRecordLogin ==
    \E u \in store :
        /\ u.login_count < MaxLogins
        /\ store' = {RecordLogin(u, now)}
        /\ procs' = [procs EXCEPT !.streak = 0]
        /\ UNCHANGED <<cache, nextId, now, repoDown>>

DoRecordFailedLogin ==
    \E u \in store :
        /\ procs.streak < MaxFailures
        /\ store' = {RecordFailedLogin(u, now)}
        /\ procs' = [streak |-> procs.streak + 1, last_failed |-> At(now)]
        /\ UNCHANGED <<cache, nextId, now, repoDown>>

\* A quarter of an hour passes.
MinutesPass ==
    /\ now + 15 <= MaxLockMinutes
    /\ now' = now + 15
    /\ UNCHANGED <<store, cache, nextId, procs, repoDown>>

NextEntity ==
    \/ DoAddRole
    \/ DoRemoveRole
    \/ DoRecordLogin
    \/ DoRecordFailedLogin
    \/ MinutesPass

SpecEntity == InitEntity /\ [][NextEntity]_vars

\* ------------------------------------------------- passwords on offer
\* A caller offers one password after another to the three checks of the
\* code base; procs holds the password on offer, by its length in bytes and
\* the classes of its characters, and what each check answered.

PasswordLengths == {4, 7, 8, 9, 127, 128, 129}

PasswordShapes ==
    [len : PasswordLengths, classes : SUBSET {"upper", "lower", "digit", "symbol"}]

Offered(shape) ==
    [password |-> shape,
     models |-> ValidatePasswordOf(shape.len, shape.classes),
     utils |-> PasswordServiceValidatePassword(shape.len, shape.classes),
     response |-> IsValidPassword(shape.len, shape.classes)]

InitPasswords ==
    /\ store = {}
    /\ cache = <<>>
    /\ nextId = 1
    /\ now = 0
    /\ procs \in {Offered(shape) : shape \in PasswordShapes}
    /\ repoDown = FALSE

OfferPassword ==
    /\ \E shape \in PasswordShapes : procs' = Offered(shape)
    /\ UNCHANGED <<store, cache, nextId, now, repoDown>>

SpecPasswords == InitPasswords /\ [][OfferPassword]_vars

\* ------------------------------------------------------------------ claims
\* The claims about the sequential service are stated over every reachable
\* state and every input: the result of applying an operation there is the
\* step the corresponding action takes.

\* What a read served from the cache can return of a stored user: the
\* document as serialised and read back.
CachedForm(u) == UnmarshalUser(MarshalUser(u))

\* u and v agree on every field that is serialised (all but password, salt).
SameEntity(u, v) == [u EXCEPT !.password = v.password, !.salt = v.salt] = v

NotFound == <<"user not found">>

EntityKeys(u) == {KeyUser(u.id), KeyUserByEmail(u.email), KeyUserUsername(u.username)}

\* A read that was served from the cache alone and returned entity u.
ServedFromCache(g, u) ==
    /\ g.err = NoError
    /\ g.calls = 0
    /\ g.user = CachedForm(u)
    /\ SameEntity(g.user, u)

\* C1: after a successful CreateUser the cache holds the created user under
\* its id, its stored email and its stored username, and GetUserByID,
\* GetUserByEmail and GetUserByUsername for these values each return the
\* created user (every serialised field of it) without a repository call.
C1_CreateThenReadsHitCache ==
    \A req \in CreateRequests, salt \in Salts :
        LET r == CreateUser(store, cache, req, ObjectID(nextId), salt, now, NoCacheFailure)
            u == r.user
        IN r.err = NoError =>
            /\ u \in r.store
            /\ \A k \in EntityKeys(u) :
                  /\ k \in DOMAIN r.cache
                  /\ r.cache[k].kind = "user"
                  /\ r.cache[k].val = MarshalUser(u)
            /\ ServedFromCache(GetUserByID(r.store, r.cache, u.id, NoCacheFailure), u)
            /\ ServedFromCache(GetUserByEmail(r.store, r.cache, u.email, NoCacheFailure), u)
            /\ ServedFromCache(GetUserByUsername(r.store, r.cache, u.username, NoCacheFailure), u)

\* A second user is created from a request whose username is stored in
\* another form ("Bob" as "bob"), while the cache already holds entries.
C1_Witness ==
    \E req \in CreateRequests, salt \in Salts :
        LET r == CreateUser(store, cache, req, ObjectID(nextId), salt, now, NoCacheFailure)
        IN /\ r.err = NoError
           /\ r.user.username # req.username
           /\ Live(store) # {}
           /\ DOMAIN cache # {}
           /\ KeyUserUsername(r.user.username) \in DOMAIN r.cache

\* The requests that change a password by the rules of the claim: the
\* current password is the user's, the new one differs and is confirmed.
RightfulChanges(u) ==
    {req \in ChangePasswordRequests :
        /\ u.password = hashPassword(req.current_password, u.salt)
        /\ req.new_password # req.current_password
        /\ req.confirm_password = req.new_password}

\* C2: for every stored, non-deleted user, ChangePassword with the user's
\* current password and a valid, confirmed, different new password succeeds
\* and stores the new credential, whether the user record it reads comes
\* from the cache or from the store.
C2_ChangePasswordSucceeds ==
    \A u \in Live(store) : \A req \in RightfulChanges(u), salt \in Salts :
        LET r == ChangePassword(store, cache, u.id, req, salt, now, NoCacheFailure)
        IN /\ r.err = NoError
           /\ CheckPassword(DocOf(r.store, u.id), req.new_password)

\* C3: once DeleteUser has tombstoned a user, GetUserByID, GetUserByUsername
\* and GetUserByEmail for its id, username and email return the store's
\* not-found error: no cache entry of the deleted user is served.
C3_DeletedUserNotFound ==
    \A d \in store \ Live(store) :
        /\ GetUserByID(store, cache, d.id, NoCacheFailure).err = NotFound
        /\ GetUserByUsername(store, cache, d.username, NoCacheFailure).err = NotFound
        /\ GetUserByEmail(store, cache, d.email, NoCacheFailure).err = NotFound

\* A user has been deleted and another user's entries are still cached.
C3_Witness ==
    /\ \E d \in store \ Live(store) : d.username = "bob"
    /\ \E u \in Live(store) : EntityKeys(u) \subseteq DOMAIN cache

EmailChanges(u) ==
    {req \in UpdateRequests : req.email # {} /\ TrimSpace(Deref(req.email)) # u.email}

\* C5: after a successful UpdateUser that changes a user's email, the cache
\* key of the old email no longer holds that user and GetUserByEmail of the
\* new email returns the updated entity, with the new email and the other
\* updated fields.
C5_EmailChangeInvalidates ==
    \A u \in Live(store) : \A req \in EmailChanges(u) :
        LET r == UpdateUser(store, cache, u.id, req, now, NoCacheFailure)
            new == TrimSpace(Deref(req.email))
            old == KeyUserByEmail(u.email)
            g == GetUserByEmail(r.store, r.cache, new, NoCacheFailure)
        IN r.err = NoError =>
            /\ old \in DOMAIN r.cache => r.cache[old].val.id # u.id
            /\ g.err = NoError
            /\ g.user.id = u.id
            /\ g.user.email = new
            /\ req.username # {} => g.user.username = TrimSpace(Deref(req.username))
            /\ SameEntity(g.user, DocOf(r.store, u.id))

\* A user cached under its email gets a new email and a new username.
C5_Witness ==
    \E u \in Live(store) : \E req \in EmailChanges(u) :
        /\ KeyUserByEmail(u.email) \in DOMAIN cache
        /\ req.username # {} /\ TrimSpace(Deref(req.username)) # u.username
        /\ UpdateUser(store, cache, u.id, req, now, NoCacheFailure).err = NoError

\* The successful results of CreateUser, VerifyUser and DeleteUser here.
StatsMutations ==
    {r \in {[store |-> x.store, cache |-> x.cache, err |-> x.err] :
              x \in {CreateUser(store, cache, req, ObjectID(nextId), salt, now, NoCacheFailure) :
                        req \in CreateRequests, salt \in Salts}
                    \cup {VerifyUser(store, cache, id, now, NoCacheFailure) : id \in IdInputs}
                    \cup {DeleteUser(store, cache, id, now, NoCacheFailure) : id \in IdInputs}} :
        r.err = NoError}

\* C9: after each successful CreateUser, VerifyUser and DeleteUser the key
\* "user:stats" is absent, and GetUserStats always returns the aggregates of
\* the store's current non-tombstoned records.
C9_StatsInvalidated ==
    /\ \A r \in StatsMutations :
          /\ KeyUserStats \notin DOMAIN r.cache
          /\ LET g == GetUserStats(r.store, r.cache, NoCacheFailure)
             IN g.calls = 1 /\ g.stats = RepoGetUserStats(r.store)
    /\ GetUserStats(store, cache, NoCacheFailure).stats = RepoGetUserStats(store)

\* Statistics are cached, and a mutation that changes them succeeds.
C9_Witness ==
    /\ KeyUserStats \in DOMAIN cache
    /\ Live(store) # {}
    /\ \E r \in StatsMutations : RepoGetUserStats(r.store) # RepoGetUserStats(store)

\* C10: after a successful UpdateUser that changes a user's email, the
\* stored record and the entity the call returns and caches are unverified:
\* is_verified is false and email_verified_at is cleared.
C10_EmailChangeUnverifies ==
    \A u \in Live(store) : \A req \in EmailChanges(u) :
        LET r == UpdateUser(store, cache, u.id, req, now, NoCacheFailure)
            doc == DocOf(r.store, u.id)
        IN r.err = NoError =>
            /\ ~doc.is_verified /\ doc.email_verified_at = NoTime
            /\ ~r.user.is_verified /\ r.user.email_verified_at = NoTime

\* The cacheable list queries: unfiltered and unsearched.
CacheableQueries == {q \in ListQueries : isCacheableQuery(SetDefaults(q))}

\* The successful results of CreateUser and DeleteUser here.
ListMutations ==
    {r \in {[store |-> x.store, cache |-> x.cache, err |-> x.err] :
              x \in {CreateUser(store, cache, req, ObjectID(nextId), salt, now, NoCacheFailure) :
                        req \in CreateRequests, salt \in Salts}
                    \cup {DeleteUser(store, cache, id, now, NoCacheFailure) : id \in IdInputs}} :
        r.err = NoError}

\* C8: after a successful CreateUser or DeleteUser the next unfiltered
\* GetUsers reads the store and reflects the new membership and total: no
\* list-cache entry populated before the mutation is served.
C8_ListInvalidated ==
    \A r \in ListMutations : \A q \in CacheableQueries :
        LET g == GetUsers(r.store, r.cache, q, NoCacheFailure)
            all == RepoGetAll(r.store, q)
        IN /\ g.calls = 1
           /\ g.total = all.total
           /\ Len(g.users) = Len(all.users)
           /\ \A i \in 1..Len(g.users) : g.users[i].id = all.users[i].id

\* Callers p and q have both finished a CreateUser of the same username
\* with distinct emails, and the store holds nothing but what these two
\* calls put there.
RacedCreates(p, q) ==
    /\ p # q
    /\ At_(p, "done") /\ procs[p].op = "CreateUser"
    /\ At_(q, "done") /\ procs[q].op = "CreateUser"
    /\ procs[p].req.username = procs[q].req.username
    /\ procs[p].req.email # procs[q].req.email
    /\ \A d \in store :
          /\ d.deleted_at = NoTime
          /\ d.id \in {procs[p].id, procs[q].id}
          /\ d.username = ToLower(TrimSpace(procs[p].req.username))

\* C6: when two callers run CreateUser with the same username and distinct
\* valid emails, under every interleaving exactly one call succeeds and the
\* other fails with an "already exists" error that the handler reports as a
\* conflict, not as an internal error.
C6_OneCreateWinsOtherConflicts ==
    \A p, q \in Callers :
        RacedCreates(p, q) /\ procs[p].err = NoError =>
            /\ procs[q].err # NoError
            /\ ErrContains(procs[q].err, "already exists")
            /\ CreateUserStatus(procs[q].err) = StatusConflict

\* No two live users share a username, and no two share an email.
UniqueAmongLive(st) ==
    \A u, v \in Live(st) :
        u # v => u.username # v.username /\ u.email # v.email

Outcomes(st, c, cf) ==
    LET out(op, in, r) == [op |-> op, in |-> in, calls |-> r.calls, err |-> r.err] IN
    {out("CreateUser", <<req>>,
         CreateUser(st, c, req, ObjectID(nextId), "s1", now, cf)) :
        req \in CreateRequests}
    \cup {out("GetUserByID", <<id>>, GetUserByID(st, c, id, cf)) : id \in IdInputs}
    \cup {out("DeleteUser", <<id>>, DeleteUser(st, c, id, now, cf)) : id \in IdInputs}
    \cup {out("VerifyUser", <<id>>, VerifyUser(st, c, id, now, cf)) : id \in IdInputs}
    \cup {out("UpdateUser", <<id, req>>, UpdateUser(st, c, id, req, now, cf)) :
             id \in IdInputs, req \in UpdateRequests}
    \cup {out("ChangePassword", <<id, req>>,
              ChangePassword(st, c, id, req, "s1", now, cf)) :
             id \in IdInputs, req \in ChangePasswordRequests}
    \cup {out("GetUserByEmail", <<email>>, GetUserByEmail(st, c, email, cf)) :
             email \in Emails}
    \cup {out("GetUserByUsername", <<name>>, GetUserByUsername(st, c, name, cf)) :
             name \in LookupUsernames}
    \cup {out("GetUsers", <<q>>, GetUsers(st, c, q, cf)) : q \in ListQueries}
    \cup {out("GetUserStats", <<>>, GetUserStats(st, c, cf))}

OfferedPasswords == Passwords \cup {"short"}

\* The salts generateSalt may draw.
DrawnSalts == {"s1", "s2"}

\* u answers CheckPassword with true for p and for no other password.
ChecksOnly(u, p) == \A q \in OfferedPasswords : CheckPassword(u, q) <=> (q = p)

\* C12: NewUser succeeds on every valid username, email and password and
\* fails on the others; the user it returns, and every stored user after a
\* successful SetPassword, answers CheckPassword with true for the password
\* last set and false for every other one; the password field holds the hash
\* of the password and the salt.
C12_CheckPasswordMatchesLastSet ==
    /\ \A username \in Usernames \cup BadUsernames, email \in Emails,
          p \in OfferedPasswords, salt \in DrawnSalts :
           LET nu == NewUser(username, email, p, ObjectID(nextId), salt, now)
               valid == /\ Len(TrimSpace(username)) \in MinUsernameLen..MaxUsernameLen
                        /\ Len(p) \in MinPasswordLen..MaxPasswordLen
           IN
           /\ valid <=> nu.err = NoError
           /\ valid => /\ ChecksOnly(nu.user, p)
                       /\ nu.user.password = hashPassword(p, nu.user.salt)
                       /\ nu.user.salt = salt
    /\ \A u \in store, p \in OfferedPasswords, salt \in DrawnSalts :
           LET sp == SetPassword(u, p, salt, now) IN
           /\ (Len(p) \in MinPasswordLen..MaxPasswordLen) <=> sp.err = NoError
           /\ IF sp.err = NoError
              THEN /\ ChecksOnly(sp.user, p)
                   /\ sp.user.password = hashPassword(p, sp.user.salt)
              ELSE sp.user = u
    /\ \A u \in store : \E p \in Passwords : ChecksOnly(u, p)

\* A stored user whose password was set to "Passw0rdA" by NewUser can have it
\* changed to "Passw0rdB" by SetPassword under another salt.
C12_Witness ==
    \E u \in store :
        /\ ChecksOnly(u, "Passw0rdA")
        /\ u.salt = "s1"
        /\ SetPassword(u, "Passw0rdB", "s2", now).err = NoError
        /\ \E v \in store : v.id # u.id /\ ChecksOnly(v, "Passw0rdB")

\* ------------------------------------------------------------- C13
\* The pages and limits asked for; every limit is within 1..MaxLimit.
MaxPage == 3
AskedLimits == {1, 2, 3, MaxLimit}

PageQuery(page, limit, search) ==
    [page |-> page, limit |-> limit, search |-> search, role |-> "",
     is_active |-> {}, sort_by |-> "", sort_dir |-> ""]

Min(a, b) == IF a < b THEN a ELSE b
Max(a, b) == IF a > b THEN a ELSE b

\* C13: for a page p >= 1 and a limit l in 1..100, GetAll over the N live
\* records that match the query returns min(l, max(0, N - (p-1)*l)) records,
\* none of them tombstoned, and the total N; NewMeta of that total gives the
\* least number of pages of l records that hold N records; and GetUsers
\* answers the same when it is served by the repository.
C13_PageSizeAndTotal ==
    \A page \in 1..MaxPage, limit \in AskedLimits, search \in {"", "ann"} :
        LET q == PageQuery(page, limit, search)
            N == Cardinality({u \in Live(store) : MatchesQuery(u, q)})
            r == RepoGetAll(store, q)
            g == GetUsers(store, <<>>, q, NoCacheFailure)
            meta == NewMeta(page, limit, r.total)
        IN
        /\ r.err = NoError
        /\ Len(r.users) = Min(limit, Max(0, N - (page - 1) * limit))
        /\ \A i \in 1..Len(r.users) : r.users[i] \in Live(store)
        /\ r.total = N
        /\ meta.total_pages * limit >= N
        /\ (meta.total_pages - 1) * limit < N
        /\ g.err = NoError /\ g.users = r.users /\ g.total = N

\* Two live records: with a limit of 1 the second page holds one record and
\* the third none, and the total is 2 on both.
C13_Witness ==
    /\ Cardinality(Live(store)) = 2
    /\ Len(RepoGetAll(store, PageQuery(2, 1, "")).users) = 1
    /\ Len(RepoGetAll(store, PageQuery(3, 1, "")).users) = 0
    /\ RepoGetAll(store, PageQuery(3, 1, "")).total = 2
    /\ NewMeta(3, 1, 2).total_pages = 2

\* ------------------------------------------------------------- C14
\* C14: a list request whose page is below 1 or whose limit is outside 1..100
\* is answered with status 200 and served with page 1, respectively limit 20;
\* a page or limit within range is served as given; and neither GetUsers nor
\* GetAll fails on such parameters.
C14_OutOfRangeServedWithDefaults ==
    /\ \A raw \in RawListQueries :
           LET h == GetUsersHandler(store, cache, raw, NoCacheFailure)
               page == IF raw.page = {} THEN 0 ELSE Deref(raw.page)
               limit == IF raw.limit = {} THEN 0 ELSE Deref(raw.limit)
           IN
           /\ h.status = StatusOK
           /\ h.page = IF page < 1 THEN DefaultPage ELSE page
           /\ h.limit = IF limit < 1 \/ limit > MaxLimit THEN DefaultLimit ELSE limit
    /\ \A page \in -1..2, limit \in {0, 1, MaxLimit, MaxLimit + 1} :
           /\ GetUsers(store, cache, PageQuery(page, limit, ""), NoCacheFailure).err = NoError
           /\ RepoGetAll(store, PageQuery(page, limit, "")).err = NoError

\* ------------------------------------------------------------- C15
\* The errors the service returns to the six handlers from the state.
ServiceErrors ==
    {<<"CreateUser", CreateUser(store, cache, req, ObjectID(nextId), "s1", now,
                                NoCacheFailure).err>> : req \in CreateRequests}
    \cup {<<"GetUser", GetUserByID(store, cache, id, NoCacheFailure).err>> : id \in IdInputs}
    \cup {<<"DeleteUser", DeleteUser(store, cache, id, now, NoCacheFailure).err>> :
             id \in IdInputs}
    \cup {<<"VerifyUser", VerifyUser(store, cache, id, now, NoCacheFailure).err>> :
             id \in IdInputs}
    \cup {<<"UpdateUser", UpdateUser(store, cache, id, req, now, NoCacheFailure).err>> :
             id \in IdInputs, req \in UpdateRequests}
    \cup {<<"ChangePassword",
            ChangePassword(store, cache, id, req, "s1", now, NoCacheFailure).err>> :
             id \in IdInputs, req \in ChangePasswordRequests}

\* The kinds of error, by the failure the error reports.
IsValidationError(err) == err # NoError /\ err[1] = "validation failed"
IsNotFoundError(err) == err # NoError /\ err[Len(err)] = "user not found"
IsDuplicateError(err) ==
    /\ err # NoError
    /\ err[Len(err)] \in {"username '%s' already exists", "email '%s' already exists",
                          "username already exists", "email already exists",
                          "E11000 duplicate key error"}

\* C15: the handler answers a validation failure with 400, a missing or
\* tombstoned user with 404, a duplicate username or email with 409 whether
\* the service's check or the store found it, and with 500 only an error of
\* none of these kinds; the message of a 500 holds no text of the error.
C15_StatusByErrorKind ==
    \A e \in ServiceErrors :
        LET err == e[2]
            resp == HandlerResponse(e[1], err)
        IN
        err # NoError =>
            /\ IsValidationError(err) => resp.status = StatusBadRequest
            /\ IsNotFoundError(err) => resp.status = StatusNotFound
            /\ IsDuplicateError(err) => resp.status = StatusConflict
            /\ resp.status = StatusInternalServerError =>
                   \A i \in 1..Len(err) : \A j \in 1..Len(resp.message) :
                       resp.message[j] # err[i]

\* ------------------------------------------------------------- C16
\* The records whose tombstone field is present, and the others.
Tombstoned == {u \in store : u.deleted_at # NoTime}
Untombstoned == {u \in store : u.deleted_at = NoTime}

\* The members of a sequence.
Range(seq) == {seq[i] : i \in 1..Len(seq)}

\* C16: every read of the repository answers from the store as it answers
\* from the store without its tombstoned records, so it returns and counts
\* none of them; Update, SoftDelete and MarkAsVerified answer "user not found"
\* for the id of a tombstoned record and leave every tombstoned record as it
\* is; Delete and DeleteMany remove a tombstoned record.
C16_TombstonedRecordsInvisible ==
    /\ \A id \in IdInputs :
           /\ RepoGetByID(store, id) = RepoGetByID(Untombstoned, id)
           /\ RepoGetByID(store, id).user \notin Tombstoned
           /\ RepoExistsByID(store, id) = RepoExistsByID(Untombstoned, id)
    /\ \A name \in LookupUsernames :
           /\ RepoGetByUsername(store, name) = RepoGetByUsername(Untombstoned, name)
           /\ RepoGetByUsername(store, name).user \notin Tombstoned
           /\ ExistsByUsername(store, name) <=> \E u \in Untombstoned : u.username = name
           /\ RepoSearch(store, name, MaxUsers) = RepoSearch(Untombstoned, name, MaxUsers)
           /\ Range(RepoSearch(store, name, MaxUsers).users) \cap Tombstoned = {}
    /\ \A email \in Emails :
           /\ RepoGetByEmail(store, email) = RepoGetByEmail(Untombstoned, email)
           /\ RepoGetByEmail(store, email).user \notin Tombstoned
           /\ ExistsByEmail(store, email) <=> \E u \in Untombstoned : u.email = email
    /\ \A q \in ListQueries \cup {PageQuery(1, MaxUsers, "")} :
           /\ RepoGetAll(store, q) = RepoGetAll(Untombstoned, q)
           /\ Range(RepoGetAll(store, q).users) \cap Tombstoned = {}
    /\ \A role \in {RoleUser, "admin"} :
           /\ RepoGetByRole(store, role, MaxUsers) = RepoGetByRole(Untombstoned, role, MaxUsers)
           /\ Range(RepoGetByRole(store, role, MaxUsers).users) \cap Tombstoned = {}
           /\ RepoCountByRole(store, role).count
                  = Cardinality({u \in Untombstoned : HasRole(u, role)})
    /\ RepoGetUserStats(store) = RepoGetUserStats(Untombstoned)
    /\ RepoGetUserStats(store).total_users = Cardinality(Untombstoned)
    /\ \A id \in IdInputs :
           /\ \A req \in UpdateRequests :
                  Tombstoned \subseteq RepoUpdate(store, id, ToMap(req), now).store
           /\ Tombstoned \subseteq RepoSoftDelete(store, id, now).store
           /\ Tombstoned \subseteq RepoMarkAsVerified(store, id, now).store
    /\ \A u \in Tombstoned :
           /\ RepoUpdate(store, u.id, <<>>, now).err = <<"user not found">>
           /\ RepoSoftDelete(store, u.id, now).err = <<"user not found">>
           /\ RepoMarkAsVerified(store, u.id, now).err = <<"user not found">>
           /\ RepoDelete(store, u.id).err = NoError
           /\ u \notin RepoDelete(store, u.id).store
           /\ u \notin RepoDeleteMany(store, {u.id}).store

\* One record is tombstoned and another is not: the reads see the second
\* alone.
C16_Witness ==
    /\ Tombstoned # {}
    /\ Untombstoned # {}
    /\ \E u \in Tombstoned :
           /\ RepoGetByID(store, u.id).err = <<"user not found">>
           /\ RepoGetByUsername(store, u.username).err = <<"user not found">>
    /\ RepoGetAll(store, PageQuery(1, MaxUsers, "")).total = 1
    /\ RepoCountByRole(store, RoleUser).count = 1

\* ------------------------------------------------------------- C17
\* The days since the record was tombstoned.
TombstoneAge(u) == now - Deref(u.deleted_at)

DeleteWorks == {cf \in CacheFailures : ~cf.del}

\* The entity keys the cache c holds.
HeldEntityKeys(c) == {k \in DOMAIN c : c[k].kind = "user"}

\* What a mutating operation leaves: r is its result from the state, user
\* the snapshot it read first, mutated whether its call on the store
\* succeeded, fresh the user it caches afterwards (ZeroUser: none).
MutationOutcome(r, user, mutated, fresh) ==
    IF ~mutated
    THEN /\ r.err # NoError
         /\ HeldEntityKeys(cache) \subseteq HeldEntityKeys(r.cache)
    ELSE \A k \in EntityKeys(user) :
             \/ k \notin DOMAIN r.cache
             \/ /\ fresh # ZeroUser
                /\ k \in EntityKeys(fresh)
                /\ r.cache[k].val = MarshalUser(fresh)

\* C18: when the call on the store of UpdateUser, DeleteUser, VerifyUser or
\* ChangePassword has not succeeded, the operation returns an error and every
\* entity key the cache held is still there; when it has succeeded, none of
\* the by-id, by-email and by-username keys of the user read before the
\* mutation is left, but for the keys UpdateUser writes anew for the updated
\* user.
C18_MutationBeforeInvalidation ==
    \A cf \in DeleteWorks : \A id \in IdInputs :
        LET g == GetUserByID(store, cache, id, cf)
            del == DeleteUser(store, cache, id, now, cf)
            ver == VerifyUser(store, cache, id, now, cf)
        IN
        /\ MutationOutcome(del, g.user, del.err = NoError, ZeroUser)
        /\ MutationOutcome(ver, g.user, ver.err = NoError, ZeroUser)
        /\ \A req \in ChangePasswordRequests :
               LET chp == ChangePassword(store, cache, id, req, "s1", now, cf) IN
               MutationOutcome(chp, g.user, chp.err = NoError, ZeroUser)
        /\ \A req \in UpdateRequests :
               LET upd == UpdateUser(store, cache, id, req, now, cf)
                   reget == upd.err # NoError
                                /\ upd.err[1] = "failed to retrieve updated user"
               IN MutationOutcome(upd, g.user, upd.err = NoError \/ reget,
                                  IF cf.set THEN ZeroUser ELSE upd.user)

\* The cache holds the entity keys of two users. One was tombstoned during
\* an outage of the cache: DeleteUser reads it from the cache, SoftDelete
\* fails and its keys stay. The other is live: DeleteUser succeeds and its
\* keys are gone.
C18_Witness ==
    /\ ~repoDown
    /\ \E u \in store : \E v \in store :
           LET du == DeleteUser(store, cache, u.id, now, NoCacheFailure)
               dv == DeleteUser(store, cache, v.id, now, NoCacheFailure)
           IN
           /\ u.deleted_at # NoTime
           /\ KeyUser(u.id) \in DOMAIN cache
           /\ du.err = <<"failed to delete user", "user not found">>
           /\ KeyUser(u.id) \in DOMAIN du.cache
           /\ v.deleted_at = NoTime
           /\ EntityKeys(v) \subseteq DOMAIN cache
           /\ dv.err = NoError
           /\ EntityKeys(v) \cap DOMAIN dv.cache = {}

\* ------------------------------------------------------- C19 and C20
\* An entry that json.Unmarshal refuses.
CorruptEntry == [kind |-> "garbage", val |-> MarshalUser(ZeroUser), ttl |-> UserCacheExpiration]

\* The cache as it is, without the key, and with a corrupt entry under it.
CachesAround(key) ==
    {cache,
     [k \in DOMAIN cache \ {key} |-> cache[k]],
     [k \in DOMAIN cache \cup {key} |-> IF k = key THEN CorruptEntry ELSE cache[k]]}

\* The lookup under key in cache c hits: the call succeeds and the entry
\* deserializes.
Hits(c, key, cf) == ~cf.get /\ key \in DOMAIN c /\ c[key].kind = "user"

\* What C19 asks of a getter: key is the key it computes, found the answer
\* of the repository, got its result from cache c under the failures cf.
HitServedMissCached(key, found, got, c, cf) ==
    IF Hits(c, key, cf)
    THEN /\ got.err = NoError
         /\ got.user = UnmarshalUser(c[key].val)
         /\ got.calls = 0
         /\ got.cache = c
    ELSE found.err = NoError =>
            /\ got.err = NoError
            /\ got.user = found.user
            /\ got.calls = 1
            /\ ~cf.set =>
                   \A k \in EntityKeys(found.user) :
                       /\ k \in DOMAIN got.cache
                       /\ got.cache[k].kind = "user"
                       /\ got.cache[k].val = MarshalUser(found.user)

\* C19: a getter whose key holds a deserializable entry returns that entry,
\* calls the repository not at all and leaves the cache as it is; a getter
\* whose lookup misses, fails or finds a corrupt entry, and to which the
\* repository returns a user, returns that user and leaves it under its
\* by-id, by-email and by-username keys when the writes on the cache work.
C19_HitServedMissCachedUnderThreeKeys ==
    \A cf \in CacheFailures :
        /\ \A id \in IdInputs : \A c \in CachesAround(KeyUser(id)) :
               HitServedMissCached(KeyUser(id), RepoGetByID(store, id),
                                   GetUserByID(store, c, id, cf), c, cf)
        /\ \A email \in Emails : \A c \in CachesAround(KeyUserByEmail(email)) :
               HitServedMissCached(KeyUserByEmail(email), RepoGetByEmail(store, email),
                                   GetUserByEmail(store, c, email, cf), c, cf)
        /\ \A name \in LookupUsernames : \A c \in CachesAround(KeyUserUsername(name)) :
               HitServedMissCached(KeyUserUsername(name), RepoGetByUsername(store, name),
                                   GetUserByUsername(store, c, name, cf), c, cf)

\* A user is cached under its id and read from there, while its by-email
\* key is missing: the read by email goes to the repository and fills the
\* key.
C19_Witness ==
    \E u \in store :
        /\ u.deleted_at = NoTime
        /\ Hits(cache, KeyUser(u.id), NoCacheFailure)
        /\ GetUserByID(store, cache, u.id, NoCacheFailure).calls = 0
        /\ KeyUserByEmail(u.email) \notin DOMAIN cache
        /\ GetUserByEmail(store, cache, u.email, NoCacheFailure).calls = 1
        /\ KeyUserByEmail(u.email)
               \in DOMAIN GetUserByEmail(store, cache, u.email, NoCacheFailure).cache

\* What C20 asks of a getter, with the same parameters.
NotFoundUnchanged(key, found, got, c, cf) ==
    (~Hits(c, key, cf) /\ found.err = <<"user not found">>) =>
        /\ got.err = found.err
        /\ got.user = ZeroUser
        /\ got.cache = c

\* C20: a getter whose lookup in the cache does not hit and to which the
\* repository answers "user not found" returns that very error and no user,
\* and leaves the cache as it is.
C20_NotFoundUnchangedNothingCached ==
    \A cf \in CacheFailures :
        /\ \A id \in IdInputs : \A c \in CachesAround(KeyUser(id)) :
               NotFoundUnchanged(KeyUser(id), RepoGetByID(store, id),
                                 GetUserByID(store, c, id, cf), c, cf)
        /\ \A email \in Emails : \A c \in CachesAround(KeyUserByEmail(email)) :
               NotFoundUnchanged(KeyUserByEmail(email), RepoGetByEmail(store, email),
                                 GetUserByEmail(store, c, email, cf), c, cf)
        /\ \A name \in LookupUsernames : \A c \in CachesAround(KeyUserUsername(name)) :
               NotFoundUnchanged(KeyUserUsername(name), RepoGetByUsername(store, name),
                                 GetUserByUsername(store, c, name, cf), c, cf)

\* A tombstoned user and an id never given out, neither in the cache: the
\* getters answer "user not found" for both.
C20_Witness ==
    \E u \in store :
        /\ u.deleted_at # NoTime
        /\ EntityKeys(u) \cap DOMAIN cache = {}
        /\ GetUserByID(store, cache, u.id, NoCacheFailure).err = <<"user not found">>
        /\ GetUserByEmail(store, cache, u.email, NoCacheFailure).err = <<"user not found">>
        /\ GetUserByUsername(store, cache, u.username, NoCacheFailure).err
               = <<"user not found">>
        /\ \E id \in IdInputs :
               /\ IsValidObjectID(id)
               /\ \A v \in store : v.id # id
               /\ GetUserByID(store, cache, id, NoCacheFailure).err = <<"user not found">>

\* ------------------------------------------------------------- C21
\* List queries with and without a search term, in every sort direction the
\* handler accepts ("" stands for an absent sort_dir parameter).
SortedQueries ==
    {[page |-> 1, limit |-> DefaultLimit, search |-> search, role |-> "",
      is_active |-> {}, sort_by |-> "", sort_dir |-> dir] :
        search \in {"", "ann"}, dir \in {"", "desc", "asc"}}

\* Whether a query has no search term, no filter and the default sort.
IsDefaultQuery(q) ==
    /\ q.search = "" /\ q.role = "" /\ q.is_active = {}
    /\ SetDefaults(q).sort_by = "created_at"
    /\ SetDefaults(q).sort_dir = "desc"

\* C21: GetUsers reads and writes the list cache only for a query with no
\* search term, no role filter, no active filter and the default sort
\* (created_at, desc): every other query, an unfiltered one with another sort
\* direction included, is answered by the repository and leaves the cache as
\* it was.
C21_ListCacheOnlyForDefaultQueries ==
    \A q \in SortedQueries :
        ~IsDefaultQuery(q) =>
            LET g == GetUsers(store, cache, q, NoCacheFailure) IN
            /\ g.calls = 1
            /\ g.cache = cache

\* ------------------------------------------------------------- C22
ExistsKeyValues == Usernames \cup BadUsernames \cup LookupUsernames \cup Emails

\* The expiration of the class a key belongs to.
ClassTTL(k) ==
    IF k = KeyUserStats THEN UserStatsCacheExpiration
    ELSE IF \E f \in {"username", "email"}, v \in ExistsKeyValues : k = KeyUserExists(f, v)
    THEN UserExistsCacheExpiration
    ELSE IF \E q \in ListQueries : k = KeyUserList(SetDefaults(q))
    THEN UserListCacheExpiration
    ELSE UserCacheExpiration

\* The value under key k is what the store st answers for it.
ReadFrom(st, k, val) ==
    \/ k = KeyUserStats /\ val = RepoGetUserStats(st)
    \/ \E v \in ExistsKeyValues :
          \/ k = KeyUserExists("username", v)
                /\ val = (IF \E u \in st : u.deleted_at = NoTime /\ u.username = v
                          THEN "true" ELSE "false")
          \/ k = KeyUserExists("email", v)
                /\ val = (IF \E u \in st : u.deleted_at = NoTime /\ u.email = v
                          THEN "true" ELSE "false")
    \/ \E q \in ListQueries :
          LET all == RepoGetAll(st, SetDefaults(q)) IN
          /\ k = KeyUserList(SetDefaults(q))
          /\ val = [users |-> [i \in 1..Len(all.users) |-> ToUserResponse(all.users[i])],
                    total |-> all.total, page |-> SetDefaults(q).page,
                    limit |-> SetDefaults(q).limit]
    \/ \E u \in st : k \in EntityKeys(u) /\ val = MarshalUser(u)

\* C22: every entry the service writes carries the expiration of its key's
\* class (15 minutes entity keys, 5 list keys, 30 stats, 10 existence flags)
\* and holds a value read from the store during that operation; an entry that
\* is not written in a step keeps its value and loses the minutes that pass,
\* and is gone once none are left.  So no step lengthens the life of an entry
\* without overwriting it, and an entry is gone at the latest one expiration
\* after it was written.
C22_EntriesLiveOneTTL ==
    [][\A k \in DOMAIN cache' :
          \/ /\ k \in DOMAIN cache
             /\ cache'[k] = [cache[k] EXCEPT !.ttl = @ - (now' - now)]
             /\ cache'[k].ttl > 0
          \/ /\ now' = now
             /\ cache'[k].ttl = ClassTTL(k)
             /\ ReadFrom(store, k, cache'[k].val) \/ ReadFrom(store', k, cache'[k].val)]_vars

\* An existence flag and a list entry that contradict the store, each with
\* part of its life gone.
C22_Witness ==
    /\ \E k \in DOMAIN cache :
          /\ ClassTTL(k) = UserExistsCacheExpiration
          /\ cache[k].ttl < UserExistsCacheExpiration
          /\ ~ReadFrom(store, k, cache[k].val)
    /\ \E k \in DOMAIN cache :
          /\ ClassTTL(k) = UserListCacheExpiration
          /\ ~ReadFrom(store, k, cache[k].val)
    /\ now = MaxMinutes

\* ------------------------------------------------------------- C23
\* The answers of the eight mutations of the record of one id at time t.
RecordMutations(st, id, t) ==
    {RepoUpdate(st, id, "first_name" :> "Ann", t),
     RepoSoftDelete(st, id, t),
     RepoMarkAsVerified(st, id, t),
     RepoUpdateLastLogin(st, id, t),
     RepoIncrementLoginCount(st, id, t),
     RepoRecordFailedLogin(st, id, t),
     RepoResetFailedLogins(st, id, t)}
    \cup {RepoUpdateStatus(st, id, isActive, t) : isActive \in BOOLEAN}

\* C23: Update, SoftDelete, MarkAsVerified, UpdateStatus, UpdateLastLogin,
\* IncrementLoginCount, RecordFailedLogin and ResetFailedLogins succeed on the
\* id of a non-tombstoned record, replace that record alone and stamp its
\* updated_at with the time of the call, which is not before the stamp it
\* had; on an id without a record and on the id of a tombstoned record they
\* answer "user not found", and whenever they fail the store is unchanged.
C23_MutationsStampUpdatedAt ==
    /\ \A u \in store : u.created_at <= u.updated_at /\ u.updated_at <= now
    /\ \A id \in IdInputs :
           LET live == {u \in store : u.id = id /\ u.deleted_at = NoTime} IN
           \A r \in RecordMutations(store, id, now) :
               /\ IF r.err = NoError
                  THEN \E old \in live, new \in r.store :
                          /\ r.store = (store \ {old}) \cup {new}
                          /\ new.id = id
                          /\ new.created_at = old.created_at
                          /\ new.updated_at = now
                          /\ new.updated_at >= old.updated_at
                  ELSE r.store = store
               /\ live # {} => r.err = NoError
               /\ (live = {} /\ IsValidObjectID(id)) => r.err = <<"user not found">>

\* A record last stamped before the present time, on which RecordFailedLogin
\* succeeds, next to a tombstoned record, on which UpdateStatus answers "user
\* not found".
C23_Witness ==
    /\ \E u \in store :
          /\ u.deleted_at = NoTime
          /\ u.updated_at < now
          /\ RepoRecordFailedLogin(store, u.id, now).err = NoError
    /\ \E v \in store :
          /\ v.deleted_at # NoTime
          /\ RepoUpdateStatus(store, v.id, TRUE, now).err = <<"user not found">>

\* ------------------------------------------------------------- C24
\* C24: after NewUser and any sequence of AddRole and RemoveRole calls the
\* role list of the user is not empty, holds the default role "user" and
\* holds no role twice.
C24_RolesKeepDefault ==
    \A u \in store :
        /\ Len(u.roles) > 0
        /\ HasRole(u, RoleUser)
        /\ \A i, j \in 1..Len(u.roles) : u.roles[i] = u.roles[j] => i = j

\* ------------------------------------------------------------- C25
\* C25: after any sequence of RecordFailedLogin and RecordLogin calls,
\* IsLocked holds exactly when at least 5 logins have failed since the last
\* successful one and less than 30 minutes have passed since the last
\* failure; RecordLogin unlocks the account; and a locked account is unlocked
\* 30 minutes after its last failure.
C25_LockedWhileFiveRecentFailures ==
    \A u \in store :
        /\ IsLocked(u, now) <=>
               /\ procs.streak >= 5
               /\ \E at \in procs.last_failed : now - at < 30
        /\ ~IsLocked(RecordLogin(u, now), now)
        /\ IsLocked(u, now) =>
               \A at \in procs.last_failed :
                   \A t \in (at + 30)..(MaxLockMinutes + 30) : ~IsLocked(u, t)

\* An account that has logged in, then failed six times, the last time a
\* quarter of an hour ago: it is locked, and no longer so a quarter of an
\* hour later.
C25_Witness ==
    \E u \in store :
        /\ u.login_count > 0
        /\ procs.streak = 6
        /\ \E at \in procs.last_failed : now - at = 15
        /\ IsLocked(u, now)
        /\ ~IsLocked(u, now + 15)

\* ------------------------------------------------------------- C26
\* C26: the checks of the helpers are at least as strict as the service-level
\* policy: a password that response.IsValidPassword (3 of the 4 character
\* types) accepts, and one that PasswordService.ValidatePassword accepts, is
\* accepted by models.ValidatePassword, that is, has 8 to 128 bytes and an
\* upper-case letter, a lower-case letter and a digit.
C26_HelperPolicyAtLeastAsStrict ==
    /\ procs.utils = NoError => procs.models = NoError
    /\ procs.response => procs.models = NoError
    /\ procs.models = NoError <=>
           /\ procs.password.len \in 8..128
           /\ {"upper", "lower", "digit"} \subseteq procs.password.classes

\* ------------------------------------------------------------- C27
\* C27: in a sequential history without cache failures a cached existence
\* flag agrees with the store: while user:exists:<field>:<value> holds
\* "false" no non-tombstoned user has that username or email, and while it
\* holds "true" one has.
C27_ExistenceFlagsAgreeWithStore ==
    \A field \in {"username", "email"}, v \in ExistsKeyValues :
        LET key == KeyUserExists(field, v)
            taken == \E u \in store : u.deleted_at = NoTime /\ u[field] = v
        IN key \in DOMAIN cache =>
              /\ cache[key].val = "false" => ~taken
              /\ cache[key].val = "true" => taken

\* ------------------------------------------------------------- C28
\* The call of caller frame l has written to the store: it is past the
\* InsertOne, Update or SoftDelete that succeeded.
HasWritten(l) ==
    \/ l.pc \in {"u_reget", "stats"}
    \/ l.pc = "invalidate" /\ l.after \in {"u_reget", "stats"}
    \/ l.pc = "cache_user" /\ l.after \in {"stats", "return"}

\* C28: a call of CreateUser, UpdateUser or DeleteUser that returns an error
\* has left the store as it was: the step that returns the error does not
\* write, and the call had not written before.
C28_FailedCallLeavesStore ==
    [][\A p \in Callers :
          (procs[p].pc \notin {"idle", "done"} /\ procs'[p].pc = "done"
              /\ procs'[p].err # NoError) =>
              /\ store' = store
              /\ ~HasWritten(procs[p])]_vars

\* ------------------------------------------------------------- C29
\* C29: every stored username and email is in the form NewUser gives it,
\* trimmed and in lower case, so no two records hold usernames or emails
\* that differ in letter case only.
C29_StoredNamesNormalised ==
    /\ \A u \in store :
           /\ u.username = ToLower(TrimSpace(u.username))
           /\ u.email = ToLower(TrimSpace(u.email))
    /\ \A u, v \in store :
           u.id # v.id =>
               /\ ToLower(u.username) # ToLower(v.username)
               /\ ToLower(u.email) # ToLower(v.email)

\* ------------------------------------------------------------- C30
\* C30: once a user is soft-deleted, a CreateUser with valid input that
\* takes up its username, its email or both succeeds, provided no
\* non-tombstoned user holds the username or the email asked for.
C30_TombstonedNamesFree ==
    \A u \in store :
        u.deleted_at # NoTime =>
            \A req \in CreateRequests :
                LET username == ToLower(TrimSpace(req.username))
                    email == ToLower(TrimSpace(req.email))
                IN (/\ username = u.username \/ email = u.email
                    /\ ValidateCreate(req) = NoError
                    /\ \A v \in store :
                           v.deleted_at = NoTime =>
                               v.username # username /\ v.email # email)
                   => CreateUser(store, cache, req, ObjectID(nextId), "s1", now,
                                 NoCacheFailure).err = NoError

====
